---- MODULE Spec2Model ----
(***************************************************************************)
(* git-adr: Architecture Decision Records stored as git notes.             *)
(*                                                                         *)
(* The model covers the Notes Store (src/core/notes.rs), the git adapter   *)
(* it drives (src/core/git.rs), the record model (src/core/adr.rs), the    *)
(* search index (src/core/index.rs) and the `new` command                  *)
(* (src/cli/new.rs).                                                       *)
(*                                                                         *)
(* Text is modelled as a sequence of one-character strings, so that        *)
(* formatting, prefix stripping, number parsing and byte-wise comparison   *)
(* are computed the way the code computes them.  Option<T> is a sequence   *)
(* of length 0 (None) or 1 (Some).  A commit is the index of its hash in   *)
(* HashTable; 0 stands for the empty commit string.                        *)
(***************************************************************************)
EXTENDS Integers, Sequences, FiniteSets, TLC

VARIABLES notes, HEAD, last, pc, num, target, outcome, created, built, remote, trace, sample, gitconfig

vars == <<notes, HEAD, last, pc, num, target, outcome, created, built, remote, trace, sample, gitconfig>>

----------------------------------------------------------------------------
(* Bounds of the model *)

\* commits of the repository
NumCommits == 3
\* commits the store operations of Spec are aimed at
NumTargets == 2
\* highest number the allocator is run up to
MaxNum == 3
\* runs of `new` in one behaviour
MaxRuns == 4

----------------------------------------------------------------------------
(* Option<T> *)

None == <<>>
Some(x) == <<x>>
is_some(o) == Len(o) = 1
unwrap(o) == o[1]

----------------------------------------------------------------------------
(* Text *)

DigitChars == <<"0", "1", "2", "3", "4", "5", "6", "7", "8", "9">>
UpperChars == <<"A", "B", "C", "D", "E", "F", "G", "H", "I", "J", "K", "L", "M",
                "N", "O", "P", "Q", "R", "S", "T", "U", "V", "W", "X", "Y", "Z">>
LowerChars == <<"a", "b", "c", "d", "e", "f", "g", "h", "i", "j", "k", "l", "m",
                "n", "o", "p", "q", "r", "s", "t", "u", "v", "w", "x", "y", "z">>
\* the characters in use, in ascending byte order
ByteOrder ==
    <<"\n", " ", "#", "+", "-">> \o DigitChars \o <<":">> \o UpperChars \o <<"_">>
        \o LowerChars

ByteOf == [c \in {ByteOrder[i] : i \in 1..Len(ByteOrder)} |->
              CHOOSE i \in 1..Len(ByteOrder) : ByteOrder[i] = c]
byte(c) == ByteOf[c]

is_digit(c) == \E i \in 1..10 : DigitChars[i] = c
digit_value(c) == (CHOOSE i \in 1..10 : DigitChars[i] = c) - 1

\* Ord for str: byte-wise lexicographic, -1 / 0 / 1
RECURSIVE cmp(_, _)
cmp(a, b) ==
    IF a = <<>> /\ b = <<>> THEN 0
    ELSE IF a = <<>> THEN -1
    ELSE IF b = <<>> THEN 1
    ELSE IF byte(a[1]) < byte(b[1]) THEN -1
    ELSE IF byte(a[1]) > byte(b[1]) THEN 1
    ELSE cmp(Tail(a), Tail(b))

starts_with(s, p) == Len(s) >= Len(p) /\ SubSeq(s, 1, Len(p)) = p

\* str::contains: p occurs in s as a contiguous substring
contains(s, p) ==
    \E i \in 1..(Len(s) - Len(p) + 1) : \A j \in 1..Len(p) : s[i + j - 1] = p[j]

\* str::strip_prefix
strip_prefix(s, p) ==
    IF starts_with(s, p) THEN Some(SubSeq(s, Len(p) + 1, Len(s))) ELSE None

\* str::trim (the whitespace of the model is the space and the newline)
is_whitespace(c) == c = " " \/ c = "\n"
RECURSIVE trim_start(_)
trim_start(s) == IF s # <<>> /\ is_whitespace(s[1]) THEN trim_start(Tail(s)) ELSE s
RECURSIVE trim_end(_)
trim_end(s) ==
    IF s # <<>> /\ is_whitespace(s[Len(s)])
    THEN trim_end(SubSeq(s, 1, Len(s) - 1)) ELSE s
trim(s) == trim_end(trim_start(s))

\* str::to_lowercase
LowerOf == [c \in {ByteOrder[i] : i \in 1..Len(ByteOrder)} |->
              IF \E i \in 1..26 : UpperChars[i] = c
              THEN LowerChars[CHOOSE i \in 1..26 : UpperChars[i] = c]
              ELSE c]
to_lowercase(s) == [i \in 1..Len(s) |-> LowerOf[s[i]]]

\* [String]::join
RECURSIVE join(_, _)
join(strs, sep) ==
    IF strs = <<>> THEN <<>>
    ELSE IF Len(strs) = 1 THEN strs[1]
    ELSE strs[1] \o sep \o join(Tail(strs), sep)

RECURSIVE decimal_value(_)
decimal_value(s) ==
    IF s = <<>> THEN 0
    ELSE 10 * decimal_value(SubSeq(s, 1, Len(s) - 1)) + digit_value(s[Len(s)])

\* str::parse::<u32>: an optional '+', then one or more decimal digits.
\* Every string of up to nine digits is below 2^32; the ids of the model
\* never carry more digits than that.
parse_u32(s) ==
    LET ds == IF s # <<>> /\ s[1] = "+" THEN Tail(s) ELSE s
    IN  IF ds # <<>> /\ (\A i \in 1..Len(ds) : is_digit(ds[i])) /\ Len(ds) <= 9
        THEN Some(decimal_value(ds))
        ELSE None

RECURSIVE to_decimal(_)
to_decimal(n) ==
    IF n < 10 THEN <<DigitChars[n + 1]>>
    ELSE to_decimal(n \div 10) \o <<DigitChars[(n % 10) + 1]>>

\* the {:0width$} format: left-pad with zeros to at least `width` characters
RECURSIVE zero_pad(_, _)
zero_pad(s, width) == IF Len(s) >= width THEN s ELSE zero_pad(<<"0">> \o s, width)

----------------------------------------------------------------------------
(* Configuration: AdrConfig::default *)

prefix == <<"A", "D", "R", "-">>
digits == 4

----------------------------------------------------------------------------
(* Namespaces *)

ADR_NOTES_REF == "adr"
ARTIFACTS_NOTES_REF == "adr-artifacts"
INDEX_NOTES_REF == "adr-index"

----------------------------------------------------------------------------
(* Commits of the repository.  HashTable lists object names in ascending   *)
(* order; commit i has the name HashTable[i].                              *)

HashTable == << <<"1", "a", "f", "0", "3", "c", "9", "e">>,
                <<"2", "0", "7", "1", "5", "5", "4", "d">>,
                <<"7", "b", "e", "2", "0", "0", "a", "1">>,
                <<"c", "4", "4", "d", "9", "1", "0", "f">>,
                <<"e", "0", "9", "9", "a", "b", "3", "2">> >>

Commits == 1..NumCommits
EmptyCommit == 0
\* a revision argument that names no object of the repository
BadCommit == NumCommits + 1
ShortLen == 7

\* Git::short_hash: git rev-parse --short
short_hash(commit) == SubSeq(HashTable[commit], 1, ShortLen)

\* Git::head: git rev-parse HEAD
head(hd) == hd

----------------------------------------------------------------------------
(* Record model *)

T_PG == <<"U", "s", "e", " ", "P", "o", "s", "t", "g", "r", "e", "S", "Q", "L">>
T_RD == <<"U", "s", "e", " ", "R", "e", "d", "i", "s">>
TAG_DB == <<"d", "b">>
BODY_TXT == <<"W", "e", " ", "p", "i", "c", "k", " ", "i", "t">>

\* DateTime<Utc>: the day and the seconds into the day
DateTime(day, secs) == [day |-> day, secs |-> secs]
\* Utc::now() at the time the records of the model are built
Now == DateTime(1, 1)

\* AdrStatus, as serialized (rename_all = "lowercase")
Statuses == {"proposed", "accepted", "deprecated", "superseded", "rejected"}

\* AdrFrontmatter::default with the fields the model follows; custom is the
\* flattened map of the keys the struct does not name
FrontmatterDefault ==
    [id |-> None, title |-> <<>>, status |-> "proposed", date |-> Some(Now),
     tags |-> <<>>, format |-> None, supersedes |-> None, superseded_by |-> None,
     custom |-> <<>>]

\* Adr::new(id, title)
AdrNew(id, title) ==
    [id |-> id, commit |-> EmptyCommit,
     frontmatter |-> [FrontmatterDefault EXCEPT !.id = Some(id), !.title = title],
     body |-> <<>>]

\* FlexibleDate::serialize: format("%Y-%m-%d").  A date string is modelled by
\* what it tells: <<day>> for YYYY-MM-DD, <<day, secs>> for RFC 3339, and
\* any other length for a string in neither format.
serialize_date(dt) == <<dt.day>>

\* FlexibleDate::deserialize
deserialize_date(str) ==
    IF Len(str) = 2 THEN Some(DateTime(str[1], str[2]))
    ELSE IF Len(str) = 1 THEN Some(DateTime(str[1], 0))
    ELSE None

\* the keys AdrFrontmatter names
StructKeys ==
    {"id", "title", "status", "date", "tags", "format", "supersedes", "superseded_by"}

\* serde_yaml::to_string(&frontmatter): the keys emitted (skip_serializing_if
\* drops an absent id, date, format, supersedes and superseded_by and an
\* empty tag list) ...
yaml_keys(fm) ==
    {"title", "status"}
    \cup (IF is_some(fm.id) THEN {"id"} ELSE {})
    \cup (IF is_some(fm.date) THEN {"date"} ELSE {})
    \cup (IF fm.tags # <<>> THEN {"tags"} ELSE {})
    \cup (IF is_some(fm.format) THEN {"format"} ELSE {})
    \cup (IF is_some(fm.supersedes) THEN {"supersedes"} ELSE {})
    \cup (IF is_some(fm.superseded_by) THEN {"superseded_by"} ELSE {})
    \cup DOMAIN fm.custom

\* serialization that emits only the keys the struct names
to_yaml_struct(fm) ==
    [k \in yaml_keys(fm) \cap StructKeys |->
        CASE k = "id" -> unwrap(fm.id)
          [] k = "title" -> fm.title
          [] k = "status" -> fm.status
          [] k = "date" -> serialize_date(unwrap(fm.date))
          [] k = "tags" -> fm.tags
          [] k = "supersedes" -> unwrap(fm.supersedes)
          [] k = "superseded_by" -> unwrap(fm.superseded_by)
          [] OTHER -> unwrap(fm.format)]

\* ... and the mapping from key to value
to_yaml(fm) ==
    [k \in yaml_keys(fm) |->
        CASE k = "id" -> unwrap(fm.id)
          [] k = "title" -> fm.title
          [] k = "status" -> fm.status
          [] k = "date" -> serialize_date(unwrap(fm.date))
          [] k = "tags" -> fm.tags
          [] k = "format" -> unwrap(fm.format)
          [] k = "supersedes" -> unwrap(fm.supersedes)
          [] k = "superseded_by" -> unwrap(fm.superseded_by)
          [] OTHER -> fm.custom[k]]

\* serde_yaml::from_str::<AdrFrontmatter>: title is required, the other keys
\* have serde defaults, keys the struct does not name go to custom
from_yaml(y) ==
    LET keys == DOMAIN y
    IN  IF "title" \notin keys THEN None
        ELSE IF "status" \in keys /\ y["status"] \notin Statuses THEN None
        ELSE IF "date" \in keys /\ ~is_some(deserialize_date(y["date"])) THEN None
        ELSE Some([id |-> IF "id" \in keys THEN Some(y["id"]) ELSE None,
                   title |-> y["title"],
                   status |-> IF "status" \in keys THEN y["status"] ELSE "proposed",
                   date |-> IF "date" \in keys
                            THEN deserialize_date(y["date"]) ELSE None,
                   tags |-> IF "tags" \in keys THEN y["tags"] ELSE <<>>,
                   format |-> IF "format" \in keys THEN Some(y["format"]) ELSE None,
                   supersedes |-> IF "supersedes" \in keys
                                  THEN Some(y["supersedes"]) ELSE None,
                   superseded_by |-> IF "superseded_by" \in keys
                                     THEN Some(y["superseded_by"]) ELSE None,
                   custom |-> [k \in keys \ StructKeys |-> y[k]]])

\* The text of a note is modelled by what the parser finds in it after
\* trimming: whether it starts with "---", whether a closing "\n---"
\* follows, the mapping the text between them holds (None when it is not a
\* YAML mapping), and the text after the closing marker.
Document(opened, closed, yaml, rest) ==
    [opened |-> opened, closed |-> closed, yaml |-> yaml, rest |-> rest]

\* Adr::to_markdown: format!("---\n{}---\n\n{}", yaml, self.body); the
\* record's own id and commit fields are not part of the text
to_markdown(adr) ==
    Document(TRUE, TRUE, Some(to_yaml(adr.frontmatter)), <<"\n", "\n">> \o adr.body)

\* str::find: the position of the first occurrence of p in s, 0 for None
find(s, p) ==
    IF contains(s, p)
    THEN CHOOSE i \in 1..(Len(s) - Len(p) + 1) :
            /\ \A j \in 1..Len(p) : s[i + j - 1] = p[j]
            /\ \A k \in 1..(i - 1) : \E j \in 1..Len(p) : s[k + j - 1] # p[j]
    ELSE 0

DELIMITER == <<"-", "-", "-">>
END_MARKER == <<"\n", "-", "-", "-">>

\* serde_yaml::from_str on the text between the delimiters, for the texts
\* the model writes out in characters: a line `title: <text>` is a mapping
\* with that title, a line `id: <text>` followed by such a line is a mapping
\* with both keys, anything else is not a mapping
TITLE_KEY == <<"t", "i", "t", "l", "e", ":", " ">>
ID_KEY == <<"i", "d", ":", " ">>
yaml_from_str(text) ==
    LET t == trim(text)
        nl == find(t, <<"\n">>)
        second == SubSeq(t, nl + 1, Len(t))
    IN  IF starts_with(t, TITLE_KEY) /\ nl = 0
        THEN Some([title |-> SubSeq(t, Len(TITLE_KEY) + 1, Len(t))])
        ELSE IF /\ starts_with(t, ID_KEY) /\ nl > Len(ID_KEY) + 1
                /\ starts_with(second, TITLE_KEY) /\ ~contains(second, <<"\n">>)
        THEN Some([id |-> SubSeq(t, Len(ID_KEY) + 1, nl - 1),
                   title |-> SubSeq(second, Len(TITLE_KEY) + 1, Len(second))])
        ELSE None

\* what lines 231-245 of parse_frontmatter find in a text: trim, the test for
\* the opening delimiter, the search for the end marker, and the cuts
scan_document(text) ==
    LET content == trim(text)
    IN  IF ~starts_with(content, DELIMITER) THEN Document(FALSE, FALSE, None, content)
        ELSE LET rest == SubSeq(content, 4, Len(content))
                 pos == find(rest, END_MARKER)
             IN  IF pos = 0 THEN Document(TRUE, FALSE, None, rest)
                 ELSE Document(TRUE, TRUE, yaml_from_str(SubSeq(rest, 1, pos - 1)),
                               SubSeq(rest, pos + 4, Len(rest)))

\* Error::ParseError and the messages of parse_frontmatter
ParseError(message) == [res |-> "ParseError", message |-> message]
MSG_START == "ADR must start with YAML frontmatter (---)"
MSG_CLOSED == "YAML frontmatter must be closed with ---"
MSG_YAML == "Invalid YAML frontmatter"

\* parse_frontmatter with one message for every failure
parse_frontmatter_terse(content) ==
    IF ~content.opened \/ ~content.closed \/ ~is_some(content.yaml)
    THEN ParseError(MSG_YAML)
    ELSE LET frontmatter == from_yaml(unwrap(content.yaml))
         IN  IF ~is_some(frontmatter) THEN ParseError(MSG_YAML)
             ELSE [res |-> "ok", frontmatter |-> unwrap(frontmatter),
                   body |-> trim(content.rest)]

\* Adr::parse_frontmatter
parse_frontmatter(content) ==
    IF ~content.opened THEN ParseError(MSG_START)
    ELSE IF ~content.closed THEN ParseError(MSG_CLOSED)
    ELSE IF ~is_some(content.yaml) THEN ParseError(MSG_YAML)
    ELSE LET frontmatter == from_yaml(unwrap(content.yaml))
         IN  IF ~is_some(frontmatter) THEN ParseError(MSG_YAML)
             ELSE [res |-> "ok", frontmatter |-> unwrap(frontmatter),
                   body |-> trim(content.rest)]

\* Adr::from_markdown(id, commit, content); None stands for the error of
\* parse_frontmatter
from_markdown(id, commit, content) ==
    LET parsed == parse_frontmatter(content)
    IN  IF parsed.res = "ok"
        THEN Some([id |-> id, commit |-> commit,
                   frontmatter |-> parsed.frontmatter,
                   body |-> parsed.body])
        ELSE None

----------------------------------------------------------------------------
(* Git adapter: notes.  The note store is a set of                         *)
(* [ref, commit, content] entries.                                         *)

\* The message given with -m is cleaned up by git before it is stored (git
\* notes add, --stripspace being the default): whitespace at the end of
\* lines is removed, empty lines at the beginning and the end are removed,
\* runs of empty lines become one empty line, and the last line is ended.
RECURSIVE split_lines(_)
split_lines(s) ==
    IF s = <<>> THEN <<>>
    ELSE IF \E i \in 1..Len(s) : s[i] = "\n"
         THEN LET i == CHOOSE k \in 1..Len(s) :
                          s[k] = "\n" /\ \A j \in 1..(k - 1) : s[j] # "\n"
              IN  <<SubSeq(s, 1, i - 1)>> \o split_lines(SubSeq(s, i + 1, Len(s)))
         ELSE <<s>>

RECURSIVE cleanup_lines(_, _, _)
cleanup_lines(ls, started, blank) ==
    IF ls = <<>> THEN <<>>
    ELSE LET l == trim_end(ls[1])
         IN  IF l = <<>> THEN cleanup_lines(Tail(ls), started, started)
             ELSE (IF blank THEN <<"\n">> ELSE <<>>) \o l \o <<"\n">>
                      \o cleanup_lines(Tail(ls), TRUE, FALSE)

stripspace(s) == cleanup_lines(split_lines(s), FALSE, FALSE)

\* what the cleanup leaves of a block scalar of a YAML document that other
\* lines follow: of a run of three or more line breaks, two
RECURSIVE collapse_breaks(_, _)
collapse_breaks(s, run) ==
    IF s = <<>> THEN <<>>
    ELSE IF s[1] = "\n"
         THEN (IF run >= 2 THEN <<>> ELSE <<"\n">>) \o collapse_breaks(Tail(s), run + 1)
         ELSE <<s[1]>> \o collapse_breaks(Tail(s), 0)

\* a scalar of a serialized document: the string and the style it is
\* written in
stripspace_scalar(sc) ==
    IF sc.style = "literal" THEN [sc EXCEPT !.value = collapse_breaks(@, 0)] ELSE sc

\* the cleanup applied to the contents of a note.  A record's text is the
\* frontmatter block, whose values have one line each in the model, and
\* the text after it (after the line of the closing delimiter when there
\* is a block); an index is a YAML document; an artifact has one line.
stripspace_content(content) ==
    IF "rest" \in DOMAIN content
    THEN IF content.opened
         THEN [content EXCEPT !.rest = Tail(stripspace(<<"-">> \o @))]
         ELSE [content EXCEPT !.rest = stripspace(@)]
    ELSE IF "entries" \in DOMAIN content
    THEN [content EXCEPT !.entries =
            [k \in DOMAIN @ |->
                [f \in DOMAIN @[k] |->
                    IF f = "tags"
                    THEN [i \in DOMAIN @[k][f] |-> stripspace_scalar(@[k][f][i])]
                    ELSE stripspace_scalar(@[k][f])]]]
    ELSE content

\* git notes --ref <ref> show <commit>
notes_show(ns, ref, commit) ==
    IF \E n \in ns : n.ref = ref /\ n.commit = commit
    THEN Some((CHOOSE n \in ns : n.ref = ref /\ n.commit = commit).content)
    ELSE None

\* notes_add that clears the commit's notes in every namespace
notes_add_wipe(ns, ref, commit, content) ==
    IF commit \notin Commits
    THEN [res |-> "Git", notes |-> ns]
    ELSE [res |-> "ok",
          notes |-> {n \in ns : n.commit # commit}
                    \cup {[ref |-> ref, commit |-> commit,
                            content |-> stripspace_content(content)]}]

\* notes_add without the replacement of -f: the earlier note stays
notes_add_keep(ns, ref, commit, content) ==
    IF commit \notin Commits
    THEN [res |-> "Git", notes |-> ns]
    ELSE [res |-> "ok",
          notes |-> ns \cup {[ref |-> ref, commit |-> commit,
                            content |-> stripspace_content(content)]}]

\* git notes --ref <ref> add -f -m <content> <commit>
notes_add(ns, ref, commit, content) ==
    IF commit \notin Commits
    THEN [res |-> "Git", notes |-> ns]
    ELSE [res |-> "ok",
          notes |-> {n \in ns : ~(n.ref = ref /\ n.commit = commit)}
                    \cup {[ref |-> ref, commit |-> commit,
                            content |-> stripspace_content(content)]}]

\* git notes --ref <ref> remove <commit>
notes_remove(ns, ref, commit) ==
    IF \E n \in ns : n.ref = ref /\ n.commit = commit
    THEN [res |-> "ok", notes |-> {n \in ns : ~(n.ref = ref /\ n.commit = commit)}]
    ELSE [res |-> "Git", notes |-> ns]

\* git notes --ref <ref> list: the annotated objects in ascending name order
RECURSIVE ascending(_)
ascending(S) ==
    IF S = {} THEN <<>>
    ELSE LET m == CHOOSE x \in S : \A y \in S : x <= y
         IN  <<m>> \o ascending(S \ {m})

notes_list(ns, ref) == ascending({n.commit : n \in {m \in ns : m.ref = ref}})

\* the notes ref of a namespace exists once it holds a note
ref_exists(ns, ref) == \E n \in ns : n.ref = ref

\* what a transfer leaves in the receiving repository: the namespace as the
\* sender has it, every other namespace as it was
transfer(to, from, ref) ==
    {n \in to : n.ref # ref} \cup {n \in from : n.ref = ref}

\* git push <remote> refs/notes/<ref>:refs/notes/<ref>; accepted is the
\* remote's answer (reachable, and the update is a fast-forward)
notes_push(ns, rem, ref, accepted) ==
    IF accepted /\ ref_exists(ns, ref)
    THEN [res |-> "ok", remote |-> transfer(rem, ns, ref)]
    ELSE [res |-> "Git", remote |-> rem]

\* git fetch <remote> refs/notes/<ref>:refs/notes/<ref>
notes_fetch(ns, rem, ref, accepted) ==
    IF accepted /\ ref_exists(rem, ref)
    THEN [res |-> "ok", notes |-> transfer(ns, rem, ref)]
    ELSE [res |-> "Git", notes |-> ns]

----------------------------------------------------------------------------
(* Notes Store: NotesManager *)

\* NotesManager::extract_id_from_frontmatter
extract_id_from_frontmatter(content) ==
    IF ~content.opened THEN None
    ELSE IF ~content.closed THEN None
    ELSE IF ~is_some(content.yaml) THEN None
    ELSE IF "id" \in DOMAIN unwrap(content.yaml)
         THEN Some(unwrap(content.yaml)["id"])
         ELSE None

\* NotesManager::extract_id
extract_id(content, commit) ==
    LET id == extract_id_from_frontmatter(content)
    IN  IF is_some(id) THEN unwrap(id) ELSE prefix \o short_hash(commit)

\* insertion that compares the numbers after the prefix
RECURSIVE insert_by_number(_, _)
insert_by_number(sorted, adr) ==
    IF sorted = <<>> THEN <<adr>>
    ELSE IF decimal_value(SubSeq(adr.id, Len(prefix) + 1, Len(adr.id)))
              < decimal_value(SubSeq(sorted[1].id, Len(prefix) + 1, Len(sorted[1].id)))
         THEN <<adr>> \o sorted
    ELSE <<sorted[1]>> \o insert_by_number(Tail(sorted), adr)

\* Vec::sort_by(|a, b| a.id.cmp(&b.id)): stable
RECURSIVE insert_by_id(_, _)
insert_by_id(sorted, adr) ==
    IF sorted = <<>> THEN <<adr>>
    ELSE IF cmp(adr.id, sorted[1].id) < 0 THEN <<adr>> \o sorted
    ELSE <<sorted[1]>> \o insert_by_id(Tail(sorted), adr)

RECURSIVE sort_by_id(_)
sort_by_id(adrs) ==
    IF adrs = <<>> THEN <<>>
    ELSE insert_by_id(sort_by_id(SubSeq(adrs, 1, Len(adrs) - 1)), adrs[Len(adrs)])

\* the loop of list that gives up at the first note that does not parse
RECURSIVE collect_adrs_strict(_, _)
collect_adrs_strict(ns, commits) ==
    IF commits = <<>> THEN <<>>
    ELSE LET commit == commits[1]
             shown == notes_show(ns, ADR_NOTES_REF, commit)
             parsed == IF is_some(shown)
                       THEN from_markdown(extract_id(unwrap(shown), commit),
                                          commit, unwrap(shown))
                       ELSE None
         IN  IF is_some(shown) /\ ~is_some(parsed) THEN <<>>
             ELSE parsed \o collect_adrs_strict(ns, Tail(commits))

RECURSIVE collect_adrs(_, _)
collect_adrs(ns, commits) ==
    IF commits = <<>> THEN <<>>
    ELSE LET commit == commits[1]
             shown == notes_show(ns, ADR_NOTES_REF, commit)
             parsed == IF is_some(shown)
                       THEN from_markdown(extract_id(unwrap(shown), commit),
                                          commit, unwrap(shown))
                       ELSE None
         IN  parsed \o collect_adrs(ns, Tail(commits))

\* NotesManager::list
list(ns) == sort_by_id(collect_adrs(ns, notes_list(ns, ADR_NOTES_REF)))

\* find that also accepts an id containing the query
RECURSIVE find_id_contains(_, _)
find_id_contains(adrs, id) ==
    IF adrs = <<>> THEN None
    ELSE IF adrs[1].id = id \/ contains(adrs[1].id, id) THEN Some(adrs[1])
    ELSE find_id_contains(Tail(adrs), id)

\* Iterator::find(|adr| adr.id == id)
RECURSIVE find_id(_, _)
find_id(adrs, id) ==
    IF adrs = <<>> THEN None
    ELSE IF adrs[1].id = id THEN Some(adrs[1])
    ELSE find_id(Tail(adrs), id)

\* NotesManager::get
get(ns, id) == find_id(list(ns), id)

\* NotesManager::get_by_commit
get_by_commit(ns, commit) ==
    LET shown == notes_show(ns, ADR_NOTES_REF, commit)
    IN  IF is_some(shown)
        THEN from_markdown(extract_id(unwrap(shown), commit), commit, unwrap(shown))
        ELSE None

\* create that always writes to the head revision
create_commit_head(hd, adr) == head(hd)

\* NotesManager::create, the commit it writes to
create_commit(hd, adr) == IF adr.commit = EmptyCommit THEN head(hd) ELSE adr.commit

\* create that refuses an id that is already listed
create_unique(ns, hd, adr) ==
    IF is_some(get(ns, adr.id))
    THEN [res |-> "Git", notes |-> ns]
    ELSE notes_add(ns, ADR_NOTES_REF, create_commit(hd, adr), to_markdown(adr))

\* NotesManager::create
create(ns, hd, adr) ==
    notes_add(ns, ADR_NOTES_REF, create_commit(hd, adr), to_markdown(adr))

\* update that writes whether or not the id is listed
update_upsert(ns, adr) ==
    notes_add(ns, ADR_NOTES_REF, adr.commit, to_markdown(adr))

\* NotesManager::update
update(ns, adr) ==
    IF ~is_some(get(ns, adr.id))
    THEN [res |-> "AdrNotFound", notes |-> ns]
    ELSE notes_add(ns, ADR_NOTES_REF, adr.commit, to_markdown(adr))

\* delete that removes every record once the id is found
delete_wipe(ns, id) ==
    IF ~is_some(get(ns, id))
    THEN [res |-> "AdrNotFound", notes |-> ns]
    ELSE [res |-> "ok", notes |-> {n \in ns : n.ref # ADR_NOTES_REF}]

\* NotesManager::delete
delete(ns, id) ==
    LET found == get(ns, id)
    IN  IF ~is_some(found)
        THEN [res |-> "AdrNotFound", notes |-> ns]
        ELSE notes_remove(ns, ADR_NOTES_REF, unwrap(found).commit)

\* the suffixes of the ids that records carry in their frontmatter only
suffixes_own_ids(adrs) ==
    {unwrap(parse_u32(unwrap(strip_prefix(adrs[i].id, prefix)))) :
        i \in {j \in 1..Len(adrs) :
                  /\ is_some(adrs[j].frontmatter.id)
                  /\ is_some(strip_prefix(adrs[j].id, prefix))
                  /\ is_some(parse_u32(unwrap(strip_prefix(adrs[j].id, prefix))))}}

\* the numeric suffixes of the listed ids (the filter_map of next_number)
suffixes(adrs) ==
    {unwrap(parse_u32(unwrap(strip_prefix(adrs[i].id, prefix)))) :
        i \in {j \in 1..Len(adrs) :
                  /\ is_some(strip_prefix(adrs[j].id, prefix))
                  /\ is_some(parse_u32(unwrap(strip_prefix(adrs[j].id, prefix))))}}

max_or(S, dflt) == IF S = {} THEN dflt ELSE CHOOSE x \in S : \A y \in S : y <= x

\* next_number counting the records instead of taking the maximum
next_number_count(ns) == Len(list(ns)) + 1

\* NotesManager::next_number
next_number(ns) == max_or(suffixes(list(ns)), 0) + 1

\* format_id without the padding
format_id_bare(config, number) == config.prefix \o to_decimal(number)

\* NotesManager::format_id for a manager built with this configuration
format_id_with(config, number) ==
    config.prefix \o zero_pad(to_decimal(number), config.digits)

\* NotesManager::format_id under AdrConfig::default
format_id(number) == format_id_with([prefix |-> prefix, digits |-> digits], number)

\* one git call of a sync as it was made: what, on which namespace, result
Call(call, ref, res) == [call |-> call, ref |-> ref, res |-> res]

\* sync that fails when a fetch fails too
sync_strict(ns, rem, push, fetch, env) ==
    LET f1 == IF fetch THEN notes_fetch(ns, rem, ADR_NOTES_REF, env.fetch_adr)
              ELSE [res |-> "skip", notes |-> ns]
        f2 == IF fetch
              THEN notes_fetch(f1.notes, rem, ARTIFACTS_NOTES_REF, env.fetch_art)
              ELSE [res |-> "skip", notes |-> ns]
        p1 == IF push THEN notes_push(f2.notes, rem, ADR_NOTES_REF, env.push_adr)
              ELSE [res |-> "skip", remote |-> rem]
        p2 == IF push /\ p1.res = "ok"
              THEN notes_push(f2.notes, p1.remote, ARTIFACTS_NOTES_REF, env.push_art)
              ELSE [res |-> "skip", remote |-> p1.remote]
    IN  [res |-> IF \/ push /\ p1.res # "ok"
                    \/ fetch /\ (f1.res # "ok" \/ f2.res # "ok")
                 THEN "Git" ELSE "ok",
         notes |-> f2.notes,
         remote |-> p2.remote,
         trace |-> (IF fetch
                    THEN <<Call("fetch", ADR_NOTES_REF, f1.res),
                           Call("fetch", ARTIFACTS_NOTES_REF, f2.res)>>
                    ELSE <<>>)
                   \o (IF push THEN <<Call("push", ADR_NOTES_REF, p1.res)>> ELSE <<>>)
                   \o (IF push /\ p1.res = "ok"
                       THEN <<Call("push", ARTIFACTS_NOTES_REF, p2.res)>>
                       ELSE <<>>)]

\* sync that pushes the artifacts whatever the first push returned
sync_push_all(ns, rem, push, fetch, env) ==
    LET f1 == IF fetch THEN notes_fetch(ns, rem, ADR_NOTES_REF, env.fetch_adr)
              ELSE [res |-> "skip", notes |-> ns]
        f2 == IF fetch
              THEN notes_fetch(f1.notes, rem, ARTIFACTS_NOTES_REF, env.fetch_art)
              ELSE [res |-> "skip", notes |-> ns]
        p1 == IF push THEN notes_push(f2.notes, rem, ADR_NOTES_REF, env.push_adr)
              ELSE [res |-> "skip", remote |-> rem]
        p2 == IF push
              THEN notes_push(f2.notes, p1.remote, ARTIFACTS_NOTES_REF, env.push_art)
              ELSE [res |-> "skip", remote |-> p1.remote]
    IN  [res |-> IF push /\ p1.res # "ok" THEN "Git" ELSE "ok",
         notes |-> f2.notes,
         remote |-> p2.remote,
         trace |-> (IF fetch
                    THEN <<Call("fetch", ADR_NOTES_REF, f1.res),
                           Call("fetch", ARTIFACTS_NOTES_REF, f2.res)>>
                    ELSE <<>>)
                   \o (IF push THEN <<Call("push", ADR_NOTES_REF, p1.res)>> ELSE <<>>)
                   \o (IF push
                       THEN <<Call("push", ARTIFACTS_NOTES_REF, p2.res)>>
                       ELSE <<>>)]

\* NotesManager::sync; env holds the remote's answer to each of the four
\* transfers.  Returns the result, the local and remote notes and the git
\* calls made, in order.
sync(ns, rem, push, fetch, env) ==
    LET f1 == IF fetch THEN notes_fetch(ns, rem, ADR_NOTES_REF, env.fetch_adr)
              ELSE [res |-> "skip", notes |-> ns]
        f2 == IF fetch
              THEN notes_fetch(f1.notes, rem, ARTIFACTS_NOTES_REF, env.fetch_art)
              ELSE [res |-> "skip", notes |-> ns]
        p1 == IF push THEN notes_push(f2.notes, rem, ADR_NOTES_REF, env.push_adr)
              ELSE [res |-> "skip", remote |-> rem]
        p2 == IF push /\ p1.res = "ok"
              THEN notes_push(f2.notes, p1.remote, ARTIFACTS_NOTES_REF, env.push_art)
              ELSE [res |-> "skip", remote |-> p1.remote]
    IN  [res |-> IF push /\ p1.res # "ok" THEN "Git" ELSE "ok",
         notes |-> f2.notes,
         remote |-> p2.remote,
         trace |-> (IF fetch
                    THEN <<Call("fetch", ADR_NOTES_REF, f1.res),
                           Call("fetch", ARTIFACTS_NOTES_REF, f2.res)>>
                    ELSE <<>>)
                   \o (IF push THEN <<Call("push", ADR_NOTES_REF, p1.res)>> ELSE <<>>)
                   \o (IF push /\ p1.res = "ok"
                       THEN <<Call("push", ARTIFACTS_NOTES_REF, p2.res)>>
                       ELSE <<>>)]

----------------------------------------------------------------------------
(* Search index: src/core/index.rs *)

\* IndexEntry::from_adr
from_adr(adr) ==
    [id |-> adr.id,
     commit |-> adr.commit,
     title |-> adr.frontmatter.title,
     status |-> adr.frontmatter.status,
     tags |-> adr.frontmatter.tags,
     text |-> to_lowercase(adr.frontmatter.title \o <<" ">>
                           \o join(adr.frontmatter.tags, <<" ">>) \o <<" ">>
                           \o adr.body)]

\* matching that takes the query as typed
matches_as_typed(entry, query) ==
    \/ contains(entry.text, query)
    \/ contains(to_lowercase(entry.id), query)
    \/ contains(to_lowercase(entry.title), query)

\* IndexEntry::matches
matches(entry, query) ==
    LET query_lower == to_lowercase(query)
    IN  \/ contains(entry.text, query_lower)
        \/ contains(to_lowercase(entry.id), query_lower)
        \/ contains(to_lowercase(entry.title), query_lower)

\* SearchIndex::new; entries is a map from id to entry
SearchIndexNew == [entries |-> <<>>, version |-> 1]

\* SearchIndex::upsert
upsert(index, entry) ==
    [index EXCEPT !.entries =
        [k \in DOMAIN index.entries \cup {entry.id} |->
            IF k = entry.id THEN entry ELSE index.entries[k]]]

\* SearchIndex::search, as the set of matching entries
index_search(index, query) ==
    {index.entries[k] : k \in {j \in DOMAIN index.entries : matches(index.entries[j], query)}}

\* git rev-list --max-parents=0 HEAD: every commit descends from commit 1
rev_list_roots(hd) == <<1>>

\* the object name of git's empty tree (line 202), a name no commit has
EMPTY_TREE == 4904

\* the anchor is always the head revision, or the empty tree without one
index_commit_head(output, hd) == IF is_some(hd) THEN hd ELSE Some(EMPTY_TREE)

\* the match of get_index_commit on the result of rev-list, with the result of
\* Git::head where it is asked for; None stands for Err
index_commit(output, hd) ==
    IF is_some(output)
    THEN IF unwrap(output) = <<>> THEN hd ELSE Some(unwrap(output)[1])
    ELSE IF is_some(hd) THEN hd ELSE Some(EMPTY_TREE)

\* IndexManager::get_index_commit
get_index_commit(hd) == unwrap(index_commit(Some(rev_list_roots(hd)), Some(head(hd))))

\* A repository whose history is given: parents maps each commit to its
\* parents, head is the commit HEAD resolves to, if any.  Commits are
\* numbered in the order of their dates.
RECURSIVE reachable(_, _)
reachable(repo, c) ==
    {c} \cup UNION {reachable(repo, p) : p \in repo.parents[c]}

RECURSIVE descending(_)
descending(S) ==
    IF S = {} THEN <<>>
    ELSE LET m == CHOOSE x \in S : \A y \in S : y <= x
         IN  <<m>> \o descending(S \ {m})

\* git rev-list --max-parents=0 HEAD: the parentless commits HEAD reaches,
\* the most recent first; fails when HEAD does not resolve
rev_list_max_parents_0(repo) ==
    IF ~is_some(repo.head) THEN None
    ELSE Some(descending({c \in reachable(repo, unwrap(repo.head)) :
                            repo.parents[c] = {}}))

\* git rev-parse HEAD
rev_parse_head(repo) == repo.head

\* IndexManager::get_index_commit in a repository with this history
get_index_commit_in(repo) ==
    index_commit(rev_list_max_parents_0(repo), rev_parse_head(repo))

\* serde_yaml::to_string on a string: a string of several lines is written
\* as a literal block scalar, its lines as they are, unless a line ends in
\* a space, which only the quoted style with escapes can express; a string
\* of one line is written on the line of its key
has_break(str) == \E i \in 1..Len(str) : str[i] = "\n"
block_allowed(str) ==
    /\ str[Len(str)] # " "
    /\ \A i \in 1..(Len(str) - 1) : ~(str[i] = " " /\ str[i + 1] = "\n")
emit_scalar(str) ==
    [style |-> IF has_break(str) /\ block_allowed(str) THEN "literal" ELSE "flow",
     value |-> str]

\* serde_yaml::to_string(index) (line 144): entries, then version
index_to_yaml(index) ==
    [entries |->
        [k \in DOMAIN index.entries |->
            [id |-> emit_scalar(index.entries[k].id),
             commit |-> [style |-> "flow", value |-> index.entries[k].commit],
             title |-> emit_scalar(index.entries[k].title),
             status |-> [style |-> "flow", value |-> index.entries[k].status],
             tags |-> [i \in DOMAIN index.entries[k].tags |->
                          emit_scalar(index.entries[k].tags[i])],
             text |-> emit_scalar(index.entries[k].text)]],
     version |-> index.version]

\* serde_yaml::from_str::<SearchIndex> (line 130) on a stored index
index_from_yaml(doc) ==
    [entries |->
        [k \in DOMAIN doc.entries |->
            [id |-> doc.entries[k].id.value,
             commit |-> doc.entries[k].commit.value,
             title |-> doc.entries[k].title.value,
             status |-> doc.entries[k].status.value,
             tags |-> [i \in DOMAIN doc.entries[k].tags |-> doc.entries[k].tags[i].value],
             text |-> doc.entries[k].text.value]],
     version |-> doc.version]

\* IndexManager::load
load(ns, hd) ==
    LET shown == notes_show(ns, INDEX_NOTES_REF, get_index_commit(hd))
    IN  IF is_some(shown) THEN index_from_yaml(unwrap(shown)) ELSE SearchIndexNew

\* save that keeps an index that is already stored
save_first(ns, hd, index) ==
    IF is_some(notes_show(ns, INDEX_NOTES_REF, get_index_commit(hd)))
    THEN [res |-> "ok", notes |-> ns]
    ELSE notes_add(ns, INDEX_NOTES_REF, get_index_commit(hd), index_to_yaml(index))

\* IndexManager::save
save(ns, hd, index) ==
    notes_add(ns, INDEX_NOTES_REF, get_index_commit(hd), index_to_yaml(index))

RECURSIVE upsert_all(_, _)
upsert_all(index, adrs) ==
    IF adrs = <<>> THEN index
    ELSE upsert_all(upsert(index, from_adr(adrs[1])), Tail(adrs))

\* rebuild that adds to the stored index instead of starting from an empty one
rebuild_merge(ns, hd) == save(ns, hd, upsert_all(load(ns, hd), list(ns)))

\* IndexManager::rebuild
rebuild(ns, hd) == save(ns, hd, upsert_all(SearchIndexNew, list(ns)))

\* IndexManager::search
search(ns, hd, query) == index_search(load(ns, hd), query)

----------------------------------------------------------------------------
(* The `new` command: src/cli/new.rs run *)

\* the record `new` builds for the allocated number (lines 66-99)
new_record(number, sheet, link, hd) ==
    LET adr_id == format_id(number)
        commit == IF is_some(link) THEN unwrap(link) ELSE head(hd)
        adr == AdrNew(adr_id, sheet.title)
    IN  [adr EXCEPT !.commit = commit,
                    !.frontmatter.status = sheet.status,
                    !.frontmatter.tags = sheet.tags,
                    !.body = sheet.body]

----------------------------------------------------------------------------
(* Templates: src/core/templates.rs.  A template is modelled by what       *)
(* decides the outcome of the calls: whether its syntax is valid and which *)
(* variables it needs from the context (those it uses without a default).  *)

BuiltInTemplates == {"nygard", "madr", "y-statement", "alexandrian", "business-case"}

\* TEMPLATE_NYGARD and the other built-in templates: all use title and status
\* without a default
TEMPLATE_BUILT_IN == [valid |-> TRUE, required |-> {"title", "status"}]

\* TemplateEngine::new: the registered templates by name
TemplateEngineNew == [n \in BuiltInTemplates |-> TEMPLATE_BUILT_IN]

\* add_template that checks the text and registers nothing
add_template_unregistered(tera, name, content) ==
    IF ~content.valid THEN [res |-> "TemplateError", tera |-> tera]
    ELSE [res |-> "ok", tera |-> tera]

\* TemplateEngine::add_template
add_template(tera, name, content) ==
    IF ~content.valid THEN [res |-> "TemplateError", tera |-> tera]
    ELSE [res |-> "ok",
          tera |-> [n \in DOMAIN tera \cup {name} |->
                       IF n = name THEN content ELSE tera[n]]]

\* TemplateEngine::render: every error of the engine becomes a TemplateError
render(tera, template, context) ==
    IF template \notin DOMAIN tera THEN "TemplateError"
    ELSE IF ~(tera[template].required \subseteq DOMAIN context) THEN "TemplateError"
    ELSE "ok"

\* TemplateEngine::has_template
has_template(tera, name) == name \in DOMAIN tera

\* TemplateEngine::get_template: the built-in templates only
get_template(name) ==
    IF name \in BuiltInTemplates THEN "ok" ELSE "TemplateNotFound"

----------------------------------------------------------------------------
(* Configuration in git config: src/core/config.rs ConfigManager.  The     *)
(* repository's git config is modelled by the values of the five adr.*     *)
(* keys and of the fetch refspec of origin, None for a key that is not set. *)

FETCH_KEY == "remote.origin.fetch"
ConfigKeys == {"initialized", "prefix", "digits", "template", "format", FETCH_KEY}
GitConfigEmpty == [k \in ConfigKeys |-> None]

\* Git::config_get: the value of the key, trimmed, or None
config_get(cfg, key) ==
    IF is_some(cfg[key]) THEN Some(trim(unwrap(cfg[key]))) ELSE None

\* Git::config_set
config_set(cfg, key, value) == [cfg EXCEPT ![key] = Some(value)]

\* bool::to_string
T_TRUE == <<"t", "r", "u", "e">>
T_FALSE == <<"f", "a", "l", "s", "e">>
bool_to_string(b) == IF b THEN T_TRUE ELSE T_FALSE

\* str::parse::<u8>
parse_u8(s) ==
    LET v == parse_u32(s)
    IN  IF is_some(v) /\ unwrap(v) <= 255 THEN v ELSE None

\* the names of templates as texts
T_DEFAULT == <<"d", "e", "f", "a", "u", "l", "t">>
T_NYGARD == <<"n", "y", "g", "a", "r", "d">>
T_MADR == <<"m", "a", "d", "r">>
T_NONEXISTENT == <<"n", "o", "n", "e">>

\* AdrConfig::default
AdrConfigDefault ==
    [prefix |-> prefix, digits |-> digits, template |-> T_DEFAULT,
     format |-> T_NYGARD, initialized |-> FALSE]

\* ConfigManager::load: the defaults, overridden by the keys that are set
config_load(cfg) ==
    LET initialized == config_get(cfg, "initialized")
        pre == config_get(cfg, "prefix")
        dig == config_get(cfg, "digits")
        template == config_get(cfg, "template")
        format == config_get(cfg, "format")
    IN  [initialized |-> IF is_some(initialized) THEN unwrap(initialized) = T_TRUE
                         ELSE AdrConfigDefault.initialized,
         prefix |-> IF is_some(pre) THEN unwrap(pre) ELSE AdrConfigDefault.prefix,
         digits |-> IF is_some(dig) /\ is_some(parse_u8(unwrap(dig)))
                    THEN unwrap(parse_u8(unwrap(dig))) ELSE AdrConfigDefault.digits,
         template |-> IF is_some(template) THEN unwrap(template)
                      ELSE AdrConfigDefault.template,
         format |-> IF is_some(format) THEN unwrap(format) ELSE AdrConfigDefault.format]

\* ConfigManager::save
config_save(cfg, config) ==
    LET c1 == config_set(cfg, "initialized", bool_to_string(config.initialized))
        c2 == config_set(c1, "prefix", config.prefix)
        c3 == config_set(c2, "digits", to_decimal(config.digits))
        c4 == config_set(c3, "template", config.template)
    IN  config_set(c4, "format", config.format)

\* ConfigManager::is_initialized
is_initialized(cfg) == config_load(cfg).initialized

----------------------------------------------------------------------------
(* The `edit` command: src/cli/edit.rs run.  The deciders of a record are   *)
(* a list handled as its tags are; the model follows the tags.              *)

\* Vec::remove at the position of the first element equal to x
RECURSIVE remove_first(_, _)
remove_first(v, x) ==
    IF v = <<>> THEN <<>>
    ELSE IF v[1] = x THEN Tail(v)
    ELSE <<v[1]>> \o remove_first(Tail(v), x)

in_vec(v, x) == \E i \in 1..Len(v) : v[i] = x

\* quick edits that start again from a fresh frontmatter
quick_edits_fresh(adr, args) ==
    LET fm0 == [FrontmatterDefault EXCEPT !.id = adr.frontmatter.id,
                                          !.title = adr.frontmatter.title,
                                          !.date = adr.frontmatter.date,
                                          !.tags = adr.frontmatter.tags]
        fm1 == IF is_some(args.status) THEN [fm0 EXCEPT !.status = unwrap(args.status)] ELSE fm0
        fm2 == IF is_some(args.title) THEN [fm1 EXCEPT !.title = unwrap(args.title)] ELSE fm1
        add == is_some(args.add_tag) /\ ~in_vec(fm2.tags, unwrap(args.add_tag))
        fm3 == IF add THEN [fm2 EXCEPT !.tags = Append(@, unwrap(args.add_tag))] ELSE fm2
        rem == is_some(args.remove_tag) /\ in_vec(fm3.tags, unwrap(args.remove_tag))
        fm4 == IF rem THEN [fm3 EXCEPT !.tags = remove_first(@, unwrap(args.remove_tag))] ELSE fm3
    IN  [adr |-> [adr EXCEPT !.frontmatter = fm4],
         modified |-> is_some(args.status) \/ is_some(args.title) \/ add \/ rem]

\* the quick edits applied to the record that was read (lines 62-116): the
\* edited record and whether anything was modified
quick_edits(adr, args) ==
    LET fm0 == adr.frontmatter
        fm1 == IF is_some(args.status) THEN [fm0 EXCEPT !.status = unwrap(args.status)] ELSE fm0
        fm2 == IF is_some(args.title) THEN [fm1 EXCEPT !.title = unwrap(args.title)] ELSE fm1
        add == is_some(args.add_tag) /\ ~in_vec(fm2.tags, unwrap(args.add_tag))
        fm3 == IF add THEN [fm2 EXCEPT !.tags = Append(@, unwrap(args.add_tag))] ELSE fm2
        rem == is_some(args.remove_tag) /\ in_vec(fm3.tags, unwrap(args.remove_tag))
        fm4 == IF rem THEN [fm3 EXCEPT !.tags = remove_first(@, unwrap(args.remove_tag))] ELSE fm3
    IN  [adr |-> [adr EXCEPT !.frontmatter = fm4],
         modified |-> is_some(args.status) \/ is_some(args.title) \/ add \/ rem]

\* run: find the record in the list, edit it, update it when modified
edit(ns, args) ==
    LET found == find_id_contains(list(ns), args.adr_id)
    IN  IF ~is_some(found) THEN [res |-> "AdrNotFound", notes |-> ns]
        ELSE LET q == quick_edits(unwrap(found), args)
             IN  IF ~q.modified THEN [res |-> "unmodified", notes |-> ns]
                 ELSE update(ns, q.adr)

----------------------------------------------------------------------------
(* The commands `init`, `new`, `supersede` and `link`: src/cli/*.rs run.  A *)
(* command is an operator from the git config, the notes and HEAD to a      *)
(* result and the git config and notes it leaves.                           *)

\* the refspec that init sets
NOTES_REFSPEC == <<"+", "r", "e", "f", "s", "/", "n", "o", "t", "e", "s", "/", "*">>

\* init that saves whether or not the repository is initialized
init_always(cfg, args) ==
    LET config == [prefix |-> args.prefix, digits |-> args.digits,
                   template |-> args.template, format |-> args.template,
                   initialized |-> TRUE]
    IN  [res |-> "ok",
         gitconfig |-> config_set(config_save(cfg, config), FETCH_KEY, NOTES_REFSPEC)]

\* init::run
init(cfg, args) ==
    IF is_initialized(cfg) /\ ~args.force THEN [res |-> "ok", gitconfig |-> cfg]
    ELSE LET config == [prefix |-> args.prefix, digits |-> args.digits,
                        template |-> args.template, format |-> args.template,
                        initialized |-> TRUE]
         IN  [res |-> "ok",
              gitconfig |-> config_set(config_save(cfg, config), FETCH_KEY,
                                       NOTES_REFSPEC)]

\* the name a template is registered under, for the text of a name
template_key(text) ==
    IF text = T_NYGARD THEN "nygard"
    ELSE IF text = T_MADR THEN "madr"
    ELSE "nonexistent"

\* the names of the statuses as texts
StatusText ==
    [proposed |-> <<"p", "r", "o", "p", "o", "s", "e", "d">>,
     accepted |-> <<"a", "c", "c", "e", "p", "t", "e", "d">>,
     deprecated |-> <<"d", "e", "p", "r", "e", "c", "a", "t", "e", "d">>,
     superseded |-> <<"s", "u", "p", "e", "r", "s", "e", "d", "e", "d">>,
     rejected |-> <<"r", "e", "j", "e", "c", "t", "e", "d">>]

\* AdrStatus::from_str: the status whose name the argument is in lower case
parse_status(str) ==
    LET lower == to_lowercase(str)
    IN  IF \E st \in Statuses : StatusText[st] = lower
        THEN Some(CHOOSE st \in Statuses : StatusText[st] = lower)
        ELSE None

\* the text a built-in template renders to, modelled by its first line,
\* "# {{ title }}"
render_text(context) == <<"#", " ">> \o context.title

\* std::fs::read_to_string: a file is modelled by its content, None when it
\* cannot be read
read_to_string(file) == file.content

\* new::run from the status argument on (lines 71-122), for the id the
\* caller allocated
new_from_status(config, ns, hd, adr_id, args) ==
    LET status == parse_status(args.status)
        format == IF is_some(args.template) THEN unwrap(args.template) ELSE config.format
        commit == IF is_some(args.link) THEN unwrap(args.link) ELSE head(hd)
    IN  IF ~is_some(status) THEN [res |-> "InvalidStatus", notes |-> ns]
        ELSE LET adr == [AdrNew(adr_id, args.title) EXCEPT
                           !.commit = commit,
                           !.frontmatter.status = unwrap(status),
                           !.frontmatter.tags = args.tag,
                           !.frontmatter.date = Some(Now),
                           !.frontmatter.format = Some(format)]
                 context == [title |-> adr.frontmatter.title,
                             status |-> adr.frontmatter.status]
             IN  IF render(TemplateEngineNew, template_key(format), context) # "ok"
                 THEN [res |-> "TemplateError", notes |-> ns]
                 ELSE LET rendered == [adr EXCEPT !.body = render_text(context)]
                          file_content == IF is_some(args.file)
                                          THEN read_to_string(unwrap(args.file))
                                          ELSE None
                          opened == is_some(file_content)
                                    /\ scan_document(unwrap(file_content)).opened
                          parsed == IF opened
                                    THEN from_markdown(adr_id, commit,
                                                       scan_document(unwrap(file_content)))
                                    ELSE None
                          filed == IF opened /\ is_some(parsed)
                                   THEN [rendered EXCEPT
                                           !.frontmatter = unwrap(parsed).frontmatter,
                                           !.body = unwrap(parsed).body]
                                   ELSE IF is_some(file_content)
                                        THEN [rendered EXCEPT !.body = unwrap(file_content)]
                                        ELSE rendered
                      IN  IF is_some(args.file) /\ ~is_some(file_content)
                          THEN [res |-> "Io", notes |-> ns]
                          ELSE IF opened /\ ~is_some(parsed)
                          THEN [res |-> "ParseError", notes |-> ns]
                          ELSE IF args.preview THEN [res |-> "ok", notes |-> ns]
                          ELSE create(ns, hd, filed)

\* new that saves what it previews
new_saving_preview(cfg, ns, hd, args) ==
    LET config == config_load(cfg)
    IN  IF ~config.initialized THEN [res |-> "NotInitialized", notes |-> ns]
        ELSE new_from_status(config, ns, hd, format_id_with(config, next_number(ns)),
                             [args EXCEPT !.preview = FALSE])

\* new::run
new(cfg, ns, hd, args) ==
    LET config == config_load(cfg)
    IN  IF ~config.initialized THEN [res |-> "NotInitialized", notes |-> ns]
        ELSE new_from_status(config, ns, hd, format_id_with(config, next_number(ns)), args)

\* supersede::run
supersede(cfg, ns, hd, args) ==
    LET config == config_load(cfg)
        found == find_id_contains(list(ns), args.adr_id)
    IN  IF ~is_some(found) THEN [res |-> "AdrNotFound", notes |-> ns]
        ELSE LET old_adr == unwrap(found)
                 new_adr_id == format_id_with(config, next_number(ns))
                 format == IF is_some(args.template) THEN unwrap(args.template)
                           ELSE config.format
                 new_adr == [AdrNew(new_adr_id, args.title) EXCEPT
                               !.commit = head(hd),
                               !.frontmatter.status = "proposed",
                               !.frontmatter.date = Some(Now),
                               !.frontmatter.format = Some(format),
                               !.frontmatter.tags = old_adr.frontmatter.tags,
                               !.frontmatter.supersedes = Some(old_adr.id)]
                 context == [title |-> new_adr.frontmatter.title,
                             status |-> new_adr.frontmatter.status]
             IN  IF render(TemplateEngineNew, template_key(format), context) # "ok"
                 THEN [res |-> "TemplateError", notes |-> ns]
                 ELSE LET c == create(ns, hd, [new_adr EXCEPT !.body = render_text(context)])
                      IN  IF c.res # "ok" THEN c
                          ELSE update(c.notes,
                                      [old_adr EXCEPT
                                         !.frontmatter.status = "superseded",
                                         !.frontmatter.superseded_by = Some(new_adr_id)])

\* git rev-parse <rev>: HEAD, a full object name, or an abbreviated one that
\* one commit only starts with
rev_parse(hd, rev) ==
    IF rev.name = "HEAD" THEN Some(hd)
    ELSE IF rev.commit \notin Commits THEN None
    ELSE IF rev.name = "full" THEN Some(rev.commit)
    ELSE IF \A c \in Commits : short_hash(c) = short_hash(rev.commit) => c = rev.commit
         THEN Some(rev.commit)
         ELSE None

\* link that removes the note before it resolves the target revision
link_delete_first(ns, hd, args) ==
    LET found == find_id_contains(list(ns), args.adr_id)
    IN  IF ~is_some(found) THEN [res |-> "AdrNotFound", notes |-> ns]
        ELSE LET adr == unwrap(found)
                 d == delete(ns, adr.id)
                 full_commit == rev_parse(hd, args.commit)
             IN  IF d.res # "ok" THEN d
                 ELSE IF ~is_some(full_commit) THEN [res |-> "Git", notes |-> d.notes]
                 ELSE create(d.notes, hd, [adr EXCEPT !.commit = unwrap(full_commit)])

\* link::run
link_run(ns, hd, args) ==
    LET found == find_id_contains(list(ns), args.adr_id)
    IN  IF ~is_some(found) THEN [res |-> "AdrNotFound", notes |-> ns]
        ELSE LET adr == unwrap(found)
                 full_commit == rev_parse(hd, args.commit)
             IN  IF ~is_some(full_commit) THEN [res |-> "Git", notes |-> ns]
                 ELSE IF adr.commit = unwrap(full_commit) THEN [res |-> "ok", notes |-> ns]
                 ELSE LET d == delete(ns, adr.id)
                      IN  IF d.res # "ok" THEN d
                          ELSE create(d.notes, hd,
                                      [adr EXCEPT !.commit = unwrap(full_commit)])

\* str::lines, as the set of the lines
RECURSIVE lines(_)
lines(text) ==
    LET nl == find(text, <<"\n">>)
    IN  IF text = <<>> THEN {}
        ELSE IF nl = 0 THEN {text}
        ELSE {SubSeq(text, 1, nl - 1)} \cup lines(SubSeq(text, nl + 1, Len(text)))

\* the keys of the frontmatter as they are written
KEY_TEXT ==
    [id |-> <<"i", "d">>, title |-> <<"t", "i", "t", "l", "e">>,
     status |-> <<"s", "t", "a", "t", "u", "s">>, date |-> <<"d", "a", "t", "e">>,
     tags |-> <<"t", "a", "g", "s">>, format |-> <<"f", "o", "r", "m", "a", "t">>,
     supersedes |-> <<"s", "u", "p", "e", "r", "s", "e", "d", "e", "s">>,
     superseded_by |-> <<"s", "u", "p", "e", "r", "s", "e", "d", "e", "d", "_", "b", "y">>,
     team |-> <<"t", "e", "a", "m">>]

\* the lines serde_yaml writes for one key of the frontmatter; a date is
\* written by its day number
yaml_lines(k, v) ==
    IF k = "tags"
    THEN {KEY_TEXT[k] \o <<":">>} \cup {<<"-", " ">> \o v[i] : i \in DOMAIN v}
    ELSE {KEY_TEXT[k] \o <<":", " ">>
            \o (IF k = "status" THEN StatusText[v]
                ELSE IF k = "date" THEN to_decimal(v[1])
                ELSE v)}

\* the lines of the text Adr::to_markdown returns
markdown_lines(doc) ==
    {DELIMITER}
    \cup UNION {yaml_lines(k, unwrap(doc.yaml)[k]) : k \in DOMAIN unwrap(doc.yaml)}
    \cup lines(doc.rest)

\* Regex::is_match for the pattern search builds from a literal query
is_match(args, line) ==
    IF args.case_sensitive THEN contains(line, args.query)
    ELSE contains(to_lowercase(line), to_lowercase(args.query))

\* the loop of search::run over the records: the ids of those with a
\* matching line, up to the limit
RECURSIVE search_scan(_, _, _)
search_scan(adrs, args, results) ==
    IF adrs = <<>> THEN results
    ELSE LET hit == \E line \in markdown_lines(to_markdown(adrs[1])) : is_match(args, line)
             found == IF hit THEN Append(results, adrs[1].id) ELSE results
         IN  IF is_some(args.limit) /\ Len(found) >= unwrap(args.limit) THEN found
             ELSE search_scan(Tail(adrs), args, found)

\* search that asks the stored index
search_run_indexed(ns, args) ==
    [res |-> "ok",
     ids |-> LET hits == {e.id : e \in index_search(load(ns, 1), args.query)}
             IN  SelectSeq([i \in 1..Len(list(ns)) |-> list(ns)[i].id],
                           LAMBDA id : id \in hits)]

\* search::run for a literal query: the ids of the records it prints
search_run(ns, args) ==
    LET status == IF is_some(args.status) THEN parse_status(unwrap(args.status)) ELSE None
        by_status == SelectSeq(list(ns),
                               LAMBDA a : is_some(status)
                                          => a.frontmatter.status = unwrap(status))
        by_tag == SelectSeq(by_status,
                            LAMBDA a : is_some(args.tag)
                                       => \E i \in DOMAIN a.frontmatter.tags :
                                             contains(a.frontmatter.tags[i], unwrap(args.tag)))
    IN  IF is_some(args.status) /\ ~is_some(status)
        THEN [res |-> "InvalidStatus", ids |-> <<>>]
        ELSE [res |-> "ok", ids |-> search_scan(by_tag, args, <<>>)]

\* sync::run that pushes before it fetches
sync_run_push_first(ns, rem, args, env) ==
    LET do_push == args.push \/ ~args.pull
        do_fetch == args.pull \/ ~args.push
        p == IF do_push THEN sync(ns, rem, TRUE, FALSE, env)
             ELSE [res |-> "ok", notes |-> ns, remote |-> rem, trace |-> <<>>]
        f == IF do_fetch /\ p.res = "ok" THEN sync(p.notes, p.remote, FALSE, TRUE, env)
             ELSE [res |-> "ok", notes |-> p.notes, remote |-> p.remote, trace |-> <<>>]
    IN  [res |-> p.res, notes |-> f.notes, remote |-> f.remote, trace |-> p.trace \o f.trace]

\* sync::run: a sync that fetches, then a sync that pushes; env holds the
\* remote's answers
sync_run(ns, rem, args, env) ==
    LET do_push == args.push \/ ~args.pull
        do_fetch == args.pull \/ ~args.push
        f == IF do_fetch THEN sync(ns, rem, FALSE, TRUE, env)
             ELSE [res |-> "ok", notes |-> ns, remote |-> rem, trace |-> <<>>]
        p == IF do_push THEN sync(f.notes, f.remote, TRUE, FALSE, env)
             ELSE [res |-> "ok", notes |-> f.notes, remote |-> f.remote, trace |-> <<>>]
    IN  [res |-> p.res, notes |-> p.notes, remote |-> p.remote, trace |-> f.trace \o p.trace]

\* show::run: the record it prints
show_run(ns, args) ==
    LET found == find_id_contains(list(ns), args.adr_id)
    IN  IF ~is_some(found) THEN [res |-> "AdrNotFound", notes |-> ns, adr |-> None]
        ELSE [res |-> "ok", notes |-> ns, adr |-> found]

\* rm that also drops the artifact note of the record's commit
rm_with_artifacts(ns, args) ==
    LET found == find_id_contains(list(ns), args.adr_id)
    IN  IF ~is_some(found) THEN [res |-> "AdrNotFound", notes |-> ns]
        ELSE IF ~args.force /\ ~args.yes THEN [res |-> "ok", notes |-> ns]
        ELSE LET d == delete(ns, unwrap(found).id)
             IN  [d EXCEPT !.notes = {n \in d.notes : n.commit # unwrap(found).commit}]

\* rm::run; args.yes is the answer read from the terminal
rm_run(ns, args) ==
    LET found == find_id_contains(list(ns), args.adr_id)
    IN  IF ~is_some(found) THEN [res |-> "AdrNotFound", notes |-> ns]
        ELSE IF ~args.force /\ ~args.yes THEN [res |-> "ok", notes |-> ns]
        ELSE delete(ns, unwrap(found).id)

\* the JSON object `attach` stores (the encoded content left out)
Artifact(filename, adr_id) == [filename |-> filename, size |-> 1, adr_id |-> adr_id]

\* attach::run
attach_run(ns, args) ==
    LET found == find_id_contains(list(ns), args.adr_id)
    IN  IF ~is_some(found) THEN [res |-> "AdrNotFound", notes |-> ns]
        ELSE IF ~args.exists THEN [res |-> "FileNotFound", notes |-> ns]
        ELSE notes_add(ns, ARTIFACTS_NOTES_REF, unwrap(found).commit,
                       Artifact(args.file, unwrap(found).id))

\* artifacts::run: what it reports, and the notes after it
artifacts_run(ns, args) ==
    LET found == find_id_contains(list(ns), args.adr_id)
    IN  IF ~is_some(found) THEN [res |-> "AdrNotFound", notes |-> ns, artifact |-> None]
        ELSE LET artifact_content == notes_show(ns, ARTIFACTS_NOTES_REF, unwrap(found).commit)
             IN  IF is_some(artifact_content) /\ args.remove
                 THEN [res |-> "ok", artifact |-> artifact_content,
                       notes |-> notes_remove(ns, ARTIFACTS_NOTES_REF,
                                              unwrap(found).commit).notes]
                 ELSE [res |-> "ok", artifact |-> artifact_content, notes |-> ns]

----------------------------------------------------------------------------
(* Inputs *)

Ids == {format_id(n) : n \in 1..MaxNum}

\* what a caller fills in apart from the id
SheetPG == [title |-> T_PG, status |-> "proposed", tags |-> <<>>, body |-> <<>>]
SheetRD == [title |-> T_RD, status |-> "accepted", tags |-> <<TAG_DB>>, body |-> BODY_TXT]
Sheets == {SheetPG, SheetRD}

\* a record with every field given by the caller
Record(id, fmid, sheet, commit) ==
    [id |-> id, commit |-> commit,
     frontmatter |-> [FrontmatterDefault EXCEPT !.id = fmid,
                                                !.title = sheet.title,
                                                !.status = sheet.status,
                                                !.tags = sheet.tags],
     body |-> sheet.body]

Targets == 1..NumTargets
CommitArgs == Targets \cup {EmptyCommit, BadCommit}

\* records whose frontmatter carries their id
NewStyleRecords ==
    {[AdrNew(id, T_PG) EXCEPT !.commit = c] : id \in Ids, c \in CommitArgs}
    \cup {Record(format_id(1), Some(format_id(1)), SheetRD, c) : c \in CommitArgs}

\* records whose frontmatter id is absent or differs from their id
\* (`new --file` replaces the frontmatter by the file's, src/cli/new.rs:105-108)
OtherRecords ==
    {Record(format_id(1), fmid, SheetPG, c) :
        fmid \in {None, Some(format_id(2))}, c \in Targets}

Records == NewStyleRecords \cup OtherRecords

\* what update is called with: a record as read from the store (its commit
\* names a commit, its frontmatter carries its id), edited or not
Edits == {r \in NewStyleRecords : r.commit \in Targets}

\* the --link argument of `new`
Links == {None} \cup {Some(c) : c \in Commits}

\* the records the index specification is driven with: the edited versions
\* of record 1 are what update is called with
IndexEdits == {Record(format_id(1), Some(format_id(1)), SheetRD, c) : c \in Targets}
IndexRecords ==
    {[AdrNew(id, T_PG) EXCEPT !.commit = c] :
        id \in {format_id(1), format_id(2)}, c \in Targets}
    \cup IndexEdits

\* record c on commit c, as built by Adr::new
PlainRecords == {[AdrNew(format_id(c), T_PG) EXCEPT !.commit = c] : c \in Targets}

T_QUERY == <<"p", "o", "s", "t", "g", "r", "e", "s">>
SearchQueries == {T_QUERY, TAG_DB, format_id(2)}

\* what callers ask get for: whole ids and parts of ids
Queries == Ids \cup {<<"1">>, <<"0", "0", "0", "2">>, prefix, format_id(MaxNum + 1)}

Procs == {1, 2}

\* the remote's answers to the transfers of one sync
Envs == [fetch_adr : BOOLEAN, fetch_art : BOOLEAN, push_adr : BOOLEAN, push_art : BOOLEAN]

\* the answers that matter to a sync: a transfer that is not made has none
EnvsFor(push, fetch) ==
    {e \in Envs : /\ (~fetch => e.fetch_adr /\ e.fetch_art)
                  /\ (~push => e.push_adr /\ e.push_art)}

\* notes put into the records namespace by other tools or damaged: plain
\* text, an unclosed block, a block that is not a YAML mapping, mappings
\* without a title, with an unknown status, with an unreadable date, and a
\* well-formed one that carries no id
ForeignDocs ==
    {Document(FALSE, FALSE, None, BODY_TXT),
     Document(TRUE, FALSE, None, <<>>),
     Document(TRUE, TRUE, None, BODY_TXT),
     Document(TRUE, TRUE, Some([id |-> format_id(2)]), <<>>),
     Document(TRUE, TRUE, Some([title |-> T_RD, status |-> "draft"]), <<>>),
     Document(TRUE, TRUE, Some([title |-> T_RD, date |-> <<>>]), <<>>),
     Document(TRUE, TRUE, Some([title |-> T_RD]), <<"\n", "\n">> \o BODY_TXT)}

\* the configurations and numbers format_id is tried on: the default prefix
\* and a custom one, and for each digit width every number that fits it
P_DECISION == <<"D", "E", "C", "I", "S", "I", "O", "N", "-">>
Widths == {1, 2, 3}
Pow10(d) == IF d = 1 THEN 10 ELSE IF d = 2 THEN 100 ELSE 1000
FormatConfigs == {[prefix |-> p, digits |-> d] : p \in {prefix, P_DECISION}, d \in Widths}

\* ids around the configured width: the last that fits it and the first that
\* does not (what next_number gives after 9999 records)
WideIds == {format_id(2), format_id(9999), format_id(10000), format_id(10001)}
WideRecords == {[AdrNew(id, T_PG) EXCEPT !.commit = c] : id \in WideIds, c \in Commits}

\* ids next_number reads or passes over: numbered ones, one with a sign, one
\* with letters after the prefix, one that is the prefix alone, one with
\* another prefix
NumberIds ==
    {format_id(1), format_id(3), prefix \o <<"+", "5">>, prefix \o <<"x", "1">>, prefix,
     P_DECISION \o <<"9">>}
NumberRecords == {[AdrNew(id, T_PG) EXCEPT !.commit = c] : id \in NumberIds, c \in Commits}

\* histories of up to four commits: each commit has up to two parents among
\* the earlier ones, HEAD is on any commit, or unborn when there is none
MaxHistory == 4
Histories ==
    UNION {[1..k -> SUBSET (1..MaxHistory)] : k \in 0..MaxHistory}
Repos ==
    {[parents |-> h, head |-> hd] :
        h \in {g \in Histories :
                  \A c \in DOMAIN g :
                      /\ \A p \in g[c] : p < c
                      /\ Cardinality(g[c]) <= 2},
        hd \in {None} \cup {Some(c) : c \in 1..MaxHistory}}
ValidRepos ==
    {r \in Repos : IF DOMAIN r.parents = {} THEN r.head = None
                   ELSE is_some(r.head) /\ unwrap(r.head) \in DOMAIN r.parents}

\* the indexes given to save: entries of records 1 and 2 whose bodies have
\* no line break, one, an empty line, two empty lines, or a line that ends
\* in a space
IndexBodies ==
    {BODY_TXT,
     <<"a", "\n", "b">>,
     <<"a", "\n", "\n", "b">>,
     <<"a", "\n", "\n", "\n", "b">>,
     <<"a", " ", "\n", "b">>}
IndexEntries(c) ==
    {from_adr([AdrNew(format_id(c), T_PG) EXCEPT !.commit = c,
                                                  !.frontmatter.tags = <<TAG_DB>>,
                                                  !.body = body]) : body \in IndexBodies}
Indexes ==
    {SearchIndexNew}
    \cup {upsert(SearchIndexNew, e) : e \in IndexEntries(1)}
    \cup {upsert(upsert(SearchIndexNew, e1), e2) :
             e1 \in IndexEntries(1), e2 \in IndexEntries(2)}

\* template names, template texts and contexts the engine is called with
TemplateNames == BuiltInTemplates \cup {"custom", "nonexistent"}
TemplateTexts ==
    {[valid |-> TRUE, required |-> {"title"}], [valid |-> TRUE, required |-> {}],
     [valid |-> FALSE, required |-> {"item"}]}
Contexts == {<<>>, [title |-> T_PG], [title |-> T_PG, status |-> "Proposed"]}

\* texts given to the parser, written out in characters: whitespace, an
\* opening delimiter or something else, a frontmatter block or something
\* else, an end marker or something else, and what follows
Texts ==
    {lead \o open \o block \o close \o tail :
        lead \in {<<>>, <<" ">>, <<"\n">>},
        open \in {DELIMITER, <<"-", "-">>, <<>>, <<"N", "o">>},
        block \in {<<>>, <<"\n">> \o TITLE_KEY \o <<"x">>, <<"\n", "x">>},
        close \in {END_MARKER, <<>>, <<"\n", "-", "-">>, DELIMITER},
        tail \in {<<>>, <<"\n">>, <<"\n", "\n", "b">>}}

\* no record is under test
NoSample == [adr |-> None, text |-> None, back |-> None]

\* frontmatter keys the struct does not name
EXT_TEAM == <<"i", "n", "f", "r", "a">>
Extensions == {<<>>, [team |-> EXT_TEAM]}

\* records for the round trip: with and without frontmatter id, date (at
\* midnight or not), tags, format and extension keys, both sheets, and bodies
\* with and without whitespace around them
RoundTripBodies ==
    {<<>>, BODY_TXT, <<" ">> \o BODY_TXT, BODY_TXT \o <<"\n">>}
RoundTripRecords ==
    {[id |-> format_id(1), commit |-> 1,
      frontmatter |-> [id |-> fmid, title |-> sheet.title, status |-> sheet.status,
                       date |-> date, tags |-> sheet.tags, format |-> format,
                       supersedes |-> None, superseded_by |-> None,
                       custom |-> custom],
      body |-> body] :
        fmid \in {None, Some(format_id(1))},
        sheet \in Sheets,
        date \in {None, Some(DateTime(2, 0)), Some(Now)},
        format \in {None, Some(<<"m", "a", "d", "r">>)},
        custom \in Extensions,
        body \in RoundTripBodies}

\* the records the edit specification starts from: record c on commit c,
\* dated and tagged, with and without extension keys
TAG_NEW == <<"n", "e", "w">>
EditCommits == {1, 2}
EditRecords ==
    {[id |-> format_id(c), commit |-> c,
      frontmatter |-> [FrontmatterDefault EXCEPT !.id = Some(format_id(c)),
                                                 !.title = T_PG,
                                                 !.tags = <<TAG_DB>>,
                                                 !.custom = custom],
      body |-> BODY_TXT] :
        c \in EditCommits, custom \in Extensions}

\* a record written by another tool: its date is an RFC 3339 timestamp and
\* it has no id of its own
LegacyDoc ==
    Document(TRUE, TRUE,
             Some([title |-> T_RD, date |-> <<2, 1>>, tags |-> <<TAG_DB>>,
                   team |-> EXT_TEAM]),
             <<"\n", "\n">> \o BODY_TXT)

\* the command lines of `edit`: one quick edit, or none
NoEdit == [status |-> None, title |-> None, add_tag |-> None, remove_tag |-> None]
QuickEdits ==
    {NoEdit,
     [NoEdit EXCEPT !.status = Some("accepted")],
     [NoEdit EXCEPT !.title = Some(T_RD)],
     [NoEdit EXCEPT !.add_tag = Some(TAG_NEW)],
     [NoEdit EXCEPT !.remove_tag = Some(TAG_DB)]}
EditArgs ==
    {[adr_id |-> id, status |-> e.status, title |-> e.title,
      add_tag |-> e.add_tag, remove_tag |-> e.remove_tag] :
        id \in {format_id(1), <<"2">>, prefix \o short_hash(1)}, e \in QuickEdits}

\* the command lines of `supersede`: an id in full, a part of an id, an id
\* that is not listed; the configured template, a built-in one, an unknown one
SupersedeArgs ==
    {[adr_id |-> id, title |-> T_RD, template |-> template] :
        id \in {format_id(1), <<"2">>, format_id(MaxNum + 1)},
        template \in {None, Some(T_MADR), Some(T_NONEXISTENT)}}

\* the revisions given to `link`: HEAD, the full or the abbreviated name of
\* a commit that may hold a record or of no object, the full name of the
\* latest commit
Revs ==
    {[name |-> "HEAD", commit |-> EmptyCommit], [name |-> "full", commit |-> NumCommits]}
    \cup {[name |-> n, commit |-> c] :
             n \in {"full", "short"}, c \in EditCommits \cup {BadCommit}}

\* the records `link` moves: those of the edit specification without
\* extension keys
LinkRecords == {adr \in EditRecords : adr.frontmatter.custom = <<>>}

\* the command lines of `link`
LinkArgs ==
    {[adr_id |-> id, commit |-> rev] :
        id \in {format_id(1), <<"2">>, prefix \o short_hash(1), format_id(MaxNum + 1)},
        rev \in Revs}

\* the command lines of `init` that keep the default prefix: the notes
\* manager of the model reads ids with that prefix
InitArgsDefaultPrefix ==
    {[prefix |-> prefix, digits |-> digits, template |-> t, force |-> f] :
        t \in {T_MADR, T_DEFAULT}, f \in BOOLEAN}

\* the command lines of `init`: the default prefix, another one, one that
\* ends in a space; the default width, a smaller one, the largest u8
P_SPACED == <<"A", "D", "R", " ">>
InitArgs ==
    {[prefix |-> p, digits |-> d, template |-> t, force |-> f] :
        p \in {prefix, P_DECISION, P_SPACED}, d \in {digits, 2, 255},
        t \in {T_MADR, T_NYGARD}, f \in BOOLEAN}

\* the records, files and command lines of the artifact commands
ArtifactRecords ==
    {[AdrNew(id, T_PG) EXCEPT !.commit = c] : id \in {format_id(1), format_id(2)},
                                               c \in EditCommits}
ArtifactIds == {format_id(1), <<"2">>}
AttachArgs ==
    {[adr_id |-> id, file |-> <<"a">>, exists |-> TRUE] : id \in ArtifactIds}
    \cup {[adr_id |-> format_id(1), file |-> <<"a">>, exists |-> FALSE],
          [adr_id |-> format_id(MaxNum + 1), file |-> <<"a">>, exists |-> TRUE]}
RmArgs ==
    {[adr_id |-> id, force |-> TRUE, yes |-> FALSE] :
        id \in ArtifactIds \cup {format_id(MaxNum + 1)}}
    \cup {[adr_id |-> format_id(1), force |-> FALSE, yes |-> y] : y \in BOOLEAN}
ArtifactLinkArgs ==
    {[adr_id |-> id, commit |-> rev] :
        id \in ArtifactIds,
        rev \in {[name |-> "full", commit |-> c] : c \in EditCommits \cup {BadCommit}}}
ArtifactsArgs ==
    {[adr_id |-> id, remove |-> FALSE] : id \in ArtifactIds \cup {format_id(MaxNum + 1)}}
    \cup {[adr_id |-> format_id(1), remove |-> TRUE]}

\* the ADR arguments the commands resolve: an id in full, the bare number of
\* another, a digit that every id contains, an id that is not listed
ResolveIds == {format_id(1), <<"2">>, <<"0">>, format_id(MaxNum + 1)}
ShowArgs == {[adr_id |-> id] : id \in ResolveIds}
ResolveEditArgs ==
    {[NoEdit EXCEPT !.status = Some("accepted")] @@ [adr_id |-> id] : id \in ResolveIds}
ResolveRmArgs == {[adr_id |-> id, force |-> TRUE, yes |-> FALSE] : id \in ResolveIds}
ResolveSupersedeArgs ==
    {[adr_id |-> id, title |-> T_RD, template |-> None] : id \in ResolveIds}
ResolveLinkArgs ==
    {[adr_id |-> id, commit |-> [name |-> "HEAD", commit |-> EmptyCommit]] :
        id \in ResolveIds}

\* the command lines of `search`: a word in capitals, a word of an edited
\* title, a tag, a word no record has; the first also with each option
Q_POSTGRES == <<"P", "O", "S", "T", "G", "R", "E">>
Q_REDIS == <<"r", "e", "d", "i", "s">>
SearchPlain(query) ==
    [query |-> query, case_sensitive |-> FALSE, status |-> None, tag |-> None,
     limit |-> None]
SearchArgs ==
    {SearchPlain(q) : q \in {Q_POSTGRES, Q_REDIS, TAG_NEW, <<"x", "y", "z">>}}
    \cup {[SearchPlain(Q_POSTGRES) EXCEPT !.case_sensitive = TRUE],
          [SearchPlain(Q_POSTGRES) EXCEPT !.status = Some(StatusText["accepted"])],
          [SearchPlain(Q_POSTGRES) EXCEPT !.status = Some(<<"d", "r", "a", "f", "t">>)],
          [SearchPlain(Q_POSTGRES) EXCEPT !.tag = Some(TAG_NEW)],
          [SearchPlain(Q_POSTGRES) EXCEPT !.limit = Some(1)]}
SearchEditArgs ==
    {[NoEdit EXCEPT !.title = Some(T_RD)] @@ [adr_id |-> format_id(1)],
     [NoEdit EXCEPT !.add_tag = Some(TAG_NEW)] @@ [adr_id |-> <<"2">>]}
SearchRmArgs == {[adr_id |-> format_id(1), force |-> TRUE, yes |-> FALSE]}

\* the command lines of `sync`
SyncArgs == [pull : BOOLEAN, push : BOOLEAN]

\* the commits HEAD is on when commands are run
CommandCommits == {1, 2}

\* files given to `new`: one that cannot be read, a body, a document with
\* frontmatter, a document whose frontmatter names an id, a document whose
\* frontmatter is not closed
F_TITLE == DELIMITER \o <<"\n">> \o TITLE_KEY \o <<"x">> \o END_MARKER \o <<"\n", "b">>
F_ID ==
    DELIMITER \o <<"\n">> \o ID_KEY \o format_id(1) \o <<"\n">> \o TITLE_KEY \o <<"x">>
        \o END_MARKER \o <<"\n", "b">>
Files ==
    {[content |-> None], [content |-> Some(<<"b">>)], [content |-> Some(F_TITLE)],
     [content |-> Some(F_ID)], [content |-> Some(DELIMITER \o <<"\n", "x">>)]}

\* the command lines of `new`: a plain one, and the ones that differ from
\* it by a status that is none, a link to no commit, an unknown template or
\* a file; each with and without --preview
NewPlain ==
    [title |-> T_PG, status |-> <<"A", "c", "c", "e", "p", "t", "e", "d">>, tag |-> <<TAG_DB>>, link |-> None,
     template |-> None, file |-> None, preview |-> FALSE]
NewArgs ==
    {[a EXCEPT !.preview = p] :
        a \in {NewPlain,
                [NewPlain EXCEPT !.status = <<"d", "r", "a", "f", "t">>],
                [NewPlain EXCEPT !.link = Some(BadCommit)],
                [NewPlain EXCEPT !.template = Some(T_NONEXISTENT)]}
               \cup {[NewPlain EXCEPT !.file = Some(f)] : f \in Files},
        p \in BOOLEAN}

\* the record created in this repository and the one the other clone pushes
SyncRecord == [AdrNew(format_id(1), T_PG) EXCEPT !.commit = 1]
CloneRecord == [AdrNew(format_id(2), T_RD) EXCEPT !.commit = 2]

\* an attachment as `attach` stores it
ARTIFACT == [filename |-> <<"a">>, size |-> 1]

----------------------------------------------------------------------------
(* State *)

\* the repository after git init and a first commit, no command run yet
InitRepo ==
    /\ notes = {}
    /\ gitconfig = GitConfigEmpty
    /\ HEAD = 1
    /\ last = [op |-> "init", id |-> <<>>, res |-> "ok",
               before |-> 0, indexed |-> 0, changed |-> FALSE]
    /\ pc = [p \in Procs |-> "idle"]
    /\ num = [p \in Procs |-> 0]
    /\ target = [p \in Procs |-> [link |-> None, commit |-> EmptyCommit]]
    /\ outcome = [p \in Procs |-> "none"]
    /\ created = 0
    /\ built = [p \in Procs |-> None]
    /\ remote = {}
    /\ trace = <<>>

Init == InitRepo /\ sample = NoSample

\* a configuration and a number are picked to be formatted
InitFormat ==
    /\ InitRepo
    /\ sample \in {[config |-> c, number |-> n, id |-> None] :
                       c \in FormatConfigs, n \in 0..(Pow10(max_or(Widths, 1)) - 1)}

\* a repository is picked; no index commit has been asked for yet
InitAnchor ==
    /\ InitRepo
    /\ sample \in {[repo |-> r, from |-> None, saved |-> None, loaded |-> None] :
                       r \in ValidRepos}

\* no index has been saved or loaded by the caller
InitSaveLoad ==
    /\ InitRepo
    /\ sample = [saved |-> None, loaded |-> None]

\* an engine with the built-in templates; nothing has been called
InitTemplates ==
    /\ InitRepo
    /\ sample = [tera |-> TemplateEngineNew, op |-> "new", name |-> "",
                 context |-> <<>>, res |-> "ok"]

\* a text is picked to be parsed
InitParse ==
    /\ InitRepo
    /\ sample \in {[text |-> t, parsed |-> None, adr |-> None] : t \in Texts}

\* a record is picked to be serialized and parsed back
InitRoundTrip ==
    /\ InitRepo
    /\ sample \in {[adr |-> Some(r), text |-> None, back |-> None] : r \in RoundTripRecords}

\* what the last call of the single caller was and returned, with a record
\* of the repository before it: the number of records, the number of index
\* entries, and whether
\* the call changed the notes
Outcome(op, id, res, after) ==
    [op |-> op, id |-> id, res |-> res,
     before |-> Cardinality({n \in notes : n.ref = ADR_NOTES_REF}),
     indexed |-> Cardinality(DOMAIN load(notes, HEAD).entries),
     changed |-> after # notes]

\* a new commit or a checkout moves HEAD
Checkout(c) ==
    /\ c # HEAD
    /\ HEAD' = c
    /\ UNCHANGED <<notes, last, pc, num, target, outcome, created, built, remote, trace, sample, gitconfig>>

Create(adr) ==
    LET r == create(notes, HEAD, adr)
    IN  /\ notes' = r.notes
        /\ last' = Outcome("create", adr.id, r.res, r.notes)
        /\ UNCHANGED <<HEAD, pc, num, target, outcome, created, built, remote, trace, sample, gitconfig>>

Update(adr) ==
    LET r == update(notes, adr)
    IN  /\ notes' = r.notes
        /\ last' = Outcome("update", adr.id, r.res, r.notes)
        /\ UNCHANGED <<HEAD, pc, num, target, outcome, created, built, remote, trace, sample, gitconfig>>

Delete(id) ==
    LET r == delete(notes, id)
    IN  /\ notes' = r.notes
        /\ last' = Outcome("delete", id, r.res, r.notes)
        /\ UNCHANGED <<HEAD, pc, num, target, outcome, created, built, remote, trace, sample, gitconfig>>

Get(q) ==
    /\ last' = Outcome("get", q,
                       IF is_some(get(notes, q)) THEN "ok" ELSE "AdrNotFound", notes)
    /\ UNCHANGED <<notes, HEAD, pc, num, target, outcome, created, built, remote, trace, sample, gitconfig>>

Rebuild ==
    LET r == rebuild(notes, HEAD)
    IN  /\ notes' = r.notes
        /\ last' = Outcome("rebuild", <<>>, r.res, r.notes)
        /\ UNCHANGED <<HEAD, pc, num, target, outcome, created, built, remote, trace, sample, gitconfig>>

\* a search that stores the index it has loaded
SearchSaving(query) ==
    LET r == save(notes, HEAD, load(notes, HEAD))
    IN  /\ notes' = r.notes
        /\ last' = Outcome("search", query,
                           IF search(notes, HEAD, query) = {} THEN "none" ELSE "ok",
                           r.notes)
        /\ UNCHANGED <<HEAD, pc, num, target, outcome, created, built, remote, trace, sample, gitconfig>>

\* IndexManager::search: load, then filter; nothing is written
Search(query) ==
    /\ last' = Outcome("search", query,
                       IF search(notes, HEAD, query) = {} THEN "none" ELSE "ok", notes)
    /\ UNCHANGED <<notes, HEAD, pc, num, target, outcome, created, built, remote, trace, sample, gitconfig>>

\* one run of `new` by a single process: allocate, then create
NewRun(sheet, link) ==
    LET number == next_number(notes)
        adr == new_record(number, sheet, link, HEAD)
        r == create(notes, HEAD, adr)
    IN  /\ number <= MaxNum
        /\ created < MaxRuns
        /\ notes' = r.notes
        /\ last' = Outcome("new", adr.id, r.res, r.notes)
        /\ created' = IF r.res = "ok" THEN created + 1 ELSE created
        /\ UNCHANGED <<HEAD, pc, num, target, outcome, built, remote, trace, sample, gitconfig>>

\* `new` run by process p, step 1: next_number and format_id (lines 66-68)
NewAllocate(p, link) ==
    /\ pc[p] = "idle"
    /\ next_number(notes) <= MaxNum
    /\ pc' = [pc EXCEPT ![p] = "allocated"]
    /\ num' = [num EXCEPT ![p] = next_number(notes)]
    /\ target' = [target EXCEPT ![p] = [link |-> link, commit |-> EmptyCommit]]
    /\ outcome' = [outcome EXCEPT ![p] = "none"]
    /\ UNCHANGED <<notes, HEAD, last, created, built, remote, trace, sample, gitconfig>>

\* `new` run by process p, step 2: build the record and create it (lines 79-122)
NewCreate(p) ==
    LET adr == new_record(num[p], SheetPG, target[p].link, HEAD)
        r == create(notes, HEAD, adr)
    IN  /\ pc[p] = "allocated"
        /\ notes' = r.notes
        /\ pc' = [pc EXCEPT ![p] = "done"]
        /\ target' = [target EXCEPT ![p].commit = adr.commit]
        /\ outcome' = [outcome EXCEPT ![p] = r.res]
        /\ UNCHANGED <<HEAD, last, num, created, built, remote, trace, sample, gitconfig>>

\* the process of a finished run ends and its locals with it; the next run
\* is a fresh process
NewExit(p) ==
    /\ pc[p] = "done"
    /\ pc' = [pc EXCEPT ![p] = "idle"]
    /\ num' = [num EXCEPT ![p] = 0]
    /\ target' = [target EXCEPT ![p] = [link |-> None, commit |-> EmptyCommit]]
    /\ outcome' = [outcome EXCEPT ![p] = "none"]
    /\ UNCHANGED <<notes, HEAD, last, created, built, remote, trace, sample, gitconfig>>

\* git notes --ref adr add -f run by hand or by another tool
ForeignNote(c, doc) ==
    LET r == notes_add(notes, ADR_NOTES_REF, c, doc)
    IN  /\ notes' = r.notes
        /\ last' = Outcome("foreign", <<>>, r.res, r.notes)
        /\ UNCHANGED <<HEAD, pc, num, target, outcome, created, built, remote, trace, sample, gitconfig>>

\* `attach` on the i-th listed record: an artifact note on the record's commit
\* (src/cli/attach.rs line 90)
Attach(i) ==
    LET r == notes_add(notes, ARTIFACTS_NOTES_REF, list(notes)[i].commit, ARTIFACT)
    IN  /\ i \in 1..Len(list(notes))
        /\ notes' = r.notes
        /\ last' = Outcome("attach", list(notes)[i].id, r.res, r.notes)
        /\ UNCHANGED <<HEAD, pc, num, target, outcome, created, built, remote, trace, sample, gitconfig>>

\* another clone pushes its notes of one namespace to the remote
RemotePush(adr, ref) ==
    /\ remote' = {n \in remote : n.ref # ref}
                  \cup {[ref |-> ref, commit |-> adr.commit,
                         content |-> IF ref = ADR_NOTES_REF
                                     THEN to_markdown(adr) ELSE ARTIFACT]}
    /\ UNCHANGED <<notes, HEAD, last, pc, num, target, outcome, created, built, trace, sample, gitconfig>>

Sync(push, fetch, env) ==
    LET r == sync(notes, remote, push, fetch, env)
    IN  /\ notes' = r.notes
        /\ remote' = r.remote
        /\ trace' = r.trace
        /\ last' = Outcome("sync", <<>>, r.res, r.notes)
        /\ UNCHANGED <<HEAD, pc, num, target, outcome, created, built, sample, gitconfig>>

\* `git adr edit`
Edit(args) ==
    LET r == edit(notes, args)
    IN  /\ notes' = r.notes
        /\ last' = Outcome("edit", args.adr_id, r.res, r.notes)
        /\ UNCHANGED <<HEAD, pc, num, target, outcome, created, built, remote, trace, sample, gitconfig>>

\* `git adr supersede`
Supersede(args) ==
    LET r == supersede(gitconfig, notes, HEAD, args)
    IN  /\ next_number(notes) <= MaxNum
        /\ notes' = r.notes
        /\ last' = Outcome("supersede", args.adr_id, r.res, r.notes)
        /\ UNCHANGED <<HEAD, pc, num, target, outcome, created, built, remote, trace,
                       sample, gitconfig>>

\* `git adr link`; the outcome keeps the command line
Link(args) ==
    LET r == link_run(notes, HEAD, args)
    IN  /\ notes' = r.notes
        /\ last' = Outcome("link", args, r.res, r.notes)
        /\ UNCHANGED <<HEAD, pc, num, target, outcome, created, built, remote, trace,
                       sample, gitconfig>>

\* `git adr search`; sample keeps the ids it printed
SearchRun(args) ==
    LET r == search_run(notes, args)
    IN  /\ last' = Outcome("adr search", args, r.res, notes)
        /\ sample' = [ids |-> r.ids]
        /\ UNCHANGED <<notes, HEAD, pc, num, target, outcome, created, built, remote,
                       trace, gitconfig>>

\* `git adr sync`; trace keeps the git calls it made
SyncRun(args, env) ==
    LET r == sync_run(notes, remote, args, env)
    IN  /\ notes' = r.notes
        /\ remote' = r.remote
        /\ trace' = r.trace
        /\ last' = Outcome("adr sync", args, r.res, r.notes)
        /\ UNCHANGED <<HEAD, pc, num, target, outcome, created, built, sample, gitconfig>>

\* `git adr show`
Show(args) ==
    LET r == show_run(notes, args)
    IN  /\ last' = Outcome("show", args.adr_id, r.res, r.notes)
        /\ UNCHANGED <<notes, HEAD, pc, num, target, outcome, created, built, remote,
                       trace, sample, gitconfig>>

\* `git adr rm`
Rm(args) ==
    LET r == rm_run(notes, args)
    IN  /\ notes' = r.notes
        /\ last' = Outcome("rm", args, r.res, r.notes)
        /\ UNCHANGED <<HEAD, pc, num, target, outcome, created, built, remote, trace,
                       sample, gitconfig>>

\* `git adr attach`
AttachRun(args) ==
    LET r == attach_run(notes, args)
    IN  /\ notes' = r.notes
        /\ last' = Outcome("adr attach", args, r.res, r.notes)
        /\ UNCHANGED <<HEAD, pc, num, target, outcome, created, built, remote, trace,
                       sample, gitconfig>>

\* `git adr artifacts`; sample keeps what it reported
ArtifactsRun(args) ==
    LET r == artifacts_run(notes, args)
    IN  /\ notes' = r.notes
        /\ last' = Outcome("artifacts", args, r.res, r.notes)
        /\ sample' = [artifact |-> r.artifact]
        /\ UNCHANGED <<HEAD, pc, num, target, outcome, created, built, remote, trace,
                       gitconfig>>

\* `git adr init`; the outcome keeps the command line
InitRun(args) ==
    LET r == init(gitconfig, args)
    IN  /\ gitconfig' = r.gitconfig
        /\ last' = Outcome("adr init", args, r.res, notes)
        /\ UNCHANGED <<notes, HEAD, pc, num, target, outcome, created, built, remote,
                       trace, sample>>

\* `git adr new`; the outcome keeps the command line
New(args) ==
    LET r == new(gitconfig, notes, HEAD, args)
    IN  /\ next_number(notes) <= MaxNum
        /\ notes' = r.notes
        /\ last' = Outcome("new", args, r.res, r.notes)
        /\ UNCHANGED <<HEAD, pc, num, target, outcome, created, built, remote, trace,
                       sample, gitconfig>>

\* format_id on the number under test
FormatId ==
    /\ ~is_some(sample.id)
    /\ sample' = [sample EXCEPT !.id = Some(format_id_with(sample.config, sample.number))]
    /\ UNCHANGED <<notes, HEAD, last, pc, num, target, outcome, created, built,
                   remote, trace, gitconfig>>

\* save asks for the index commit (src/core/index.rs line 143)
AnchorSave ==
    /\ ~is_some(sample.saved)
    /\ sample' = [sample EXCEPT !.saved = get_index_commit_in(sample.repo),
                                !.from = Some(sample.repo.head)]
    /\ UNCHANGED <<notes, HEAD, last, pc, num, target, outcome, created, built,
                   remote, trace, gitconfig>>

\* git switch between save and load: HEAD moves, no commit is made
AnchorSwitch(c) ==
    /\ is_some(sample.saved)
    /\ ~is_some(sample.loaded)
    /\ c \in DOMAIN sample.repo.parents
    /\ sample.repo.head # Some(c)
    /\ sample' = [sample EXCEPT !.repo.head = Some(c)]
    /\ UNCHANGED <<notes, HEAD, last, pc, num, target, outcome, created, built,
                   remote, trace, gitconfig>>

\* load asks for the index commit (line 127)
AnchorLoad ==
    /\ is_some(sample.saved)
    /\ ~is_some(sample.loaded)
    /\ sample' = [sample EXCEPT !.loaded = get_index_commit_in(sample.repo)]
    /\ UNCHANGED <<notes, HEAD, last, pc, num, target, outcome, created, built,
                   remote, trace, gitconfig>>

\* IndexManager::save called with an index
IndexSave(index) ==
    LET r == save(notes, HEAD, index)
    IN  /\ notes' = r.notes
        /\ last' = Outcome("save", <<>>, r.res, r.notes)
        /\ sample' = [saved |-> Some(index), loaded |-> None]
        /\ UNCHANGED <<HEAD, pc, num, target, outcome, created, built, remote, trace, gitconfig>>

\* IndexManager::load
IndexLoad ==
    /\ ~is_some(sample.loaded)
    /\ sample' = [sample EXCEPT !.loaded = Some(load(notes, HEAD))]
    /\ UNCHANGED <<notes, HEAD, last, pc, num, target, outcome, created, built,
                   remote, trace, gitconfig>>

AddTemplate(name, content) ==
    LET r == add_template(sample.tera, name, content)
    IN  /\ sample' = [tera |-> r.tera, op |-> "add_template", name |-> name,
                      context |-> <<>>, res |-> r.res]
        /\ UNCHANGED <<notes, HEAD, last, pc, num, target, outcome, created, built,
                       remote, trace, gitconfig>>

Render(name, context) ==
    /\ sample' = [sample EXCEPT !.op = "render", !.name = name, !.context = context,
                                !.res = render(sample.tera, name, context)]
    /\ UNCHANGED <<notes, HEAD, last, pc, num, target, outcome, created, built,
                   remote, trace, gitconfig>>

GetTemplate(name) ==
    /\ sample' = [sample EXCEPT !.op = "get_template", !.name = name, !.context = <<>>,
                                !.res = get_template(name)]
    /\ UNCHANGED <<notes, HEAD, last, pc, num, target, outcome, created, built,
                   remote, trace, gitconfig>>

\* Adr::from_markdown on the text under test: the result of
\* parse_frontmatter and the record built from it, if any
ParseText ==
    /\ ~is_some(sample.parsed)
    /\ sample' = [sample EXCEPT
                     !.parsed = Some(parse_frontmatter(scan_document(sample.text))),
                     !.adr = from_markdown(format_id(1), 1, scan_document(sample.text))]
    /\ UNCHANGED <<notes, HEAD, last, pc, num, target, outcome, created, built,
                   remote, trace, gitconfig>>

\* Adr::to_markdown on the record under test
Serialize ==
    /\ is_some(sample.adr)
    /\ ~is_some(sample.text)
    /\ sample' = [sample EXCEPT !.text = Some(to_markdown(unwrap(sample.adr)))]
    /\ UNCHANGED <<notes, HEAD, last, pc, num, target, outcome, created, built,
                   remote, trace, gitconfig>>

\* Adr::from_markdown on the text, with the id and commit of the record
Parse ==
    /\ is_some(sample.text)
    /\ ~is_some(sample.back)
    /\ sample' = [sample EXCEPT !.back =
                     from_markdown(unwrap(sample.adr).id, unwrap(sample.adr).commit,
                                   unwrap(sample.text))]
    /\ UNCHANGED <<notes, HEAD, last, pc, num, target, outcome, created, built,
                   remote, trace, gitconfig>>

\* rebuild run by process p, step 1: list() and the index built from it
\* (src/core/index.rs lines 159-166)
RebuildList(p) ==
    /\ pc[p] = "idle"
    /\ pc' = [pc EXCEPT ![p] = "listed"]
    /\ built' = [built EXCEPT ![p] = Some(upsert_all(SearchIndexNew, list(notes)))]
    /\ UNCHANGED <<notes, HEAD, last, num, target, outcome, created, remote, trace, sample, gitconfig>>

\* rebuild run by process p, step 2: save (line 168)
RebuildSave(p) ==
    LET r == save(notes, HEAD, unwrap(built[p]))
    IN  /\ pc[p] = "listed"
        /\ notes' = r.notes
        /\ pc' = [pc EXCEPT ![p] = "saved"]
        /\ outcome' = [outcome EXCEPT ![p] = r.res]
        /\ UNCHANGED <<HEAD, last, num, target, created, built, remote, trace, sample, gitconfig>>

\* the process of a finished rebuild ends and its locals with it
RebuildExit(p) ==
    /\ pc[p] = "saved"
    /\ pc' = [pc EXCEPT ![p] = "idle"]
    /\ built' = [built EXCEPT ![p] = None]
    /\ outcome' = [outcome EXCEPT ![p] = "none"]
    /\ UNCHANGED <<notes, HEAD, last, num, target, created, remote, trace, sample, gitconfig>>

----------------------------------------------------------------------------
(* Spec: the Notes Store driven by arbitrary callers *)

Next ==
    \/ \E c \in Targets : Checkout(c)
    \/ \E adr \in Records : Create(adr)
    \/ \E adr \in Edits : Update(adr)
    \/ \E id \in Ids : Delete(id)
    \/ \E q \in Queries : Get(q)

Spec == Init /\ [][Next]_vars

(* SpecIndex: the Notes Store and the search index *)

NextIndex ==
    \/ \E c \in Targets : Checkout(c)
    \/ \E adr \in IndexRecords : Create(adr)
    \/ \E adr \in IndexEdits : Update(adr)
    \/ \E id \in {format_id(1), format_id(2)} : Delete(id)
    \/ Rebuild
    \/ \E q \in SearchQueries : Search(q)

SpecIndex == Init /\ [][NextIndex]_vars

(* SpecRace: two processes run `new` against the same repository *)

NextRace ==
    \/ \E c \in Commits : Checkout(c)
    \/ \E p \in Procs, link \in Links : NewAllocate(p, link)
    \/ \E p \in Procs : NewCreate(p)
    \/ \E p \in Procs : NewExit(p)

SpecRace == Init /\ [][NextRace]_vars

(* SpecRebuild: two processes run rebuild while records are created *)

NextRebuild ==
    \/ \E adr \in PlainRecords : Create(adr)
    \/ \E p \in Procs : RebuildList(p)
    \/ \E p \in Procs : RebuildSave(p)
    \/ \E p \in Procs : RebuildExit(p)

SpecRebuild == Init /\ [][NextRebuild]_vars

(* SpecSync: records and attachments are created here and on another clone, *)
(* and synced through the remote                                           *)

NextSync ==
    \/ Create(SyncRecord)
    \/ Attach(1)
    \/ \E ref \in {ADR_NOTES_REF, ARTIFACTS_NOTES_REF} : RemotePush(CloneRecord, ref)
    \/ \E push \in BOOLEAN, fetch \in BOOLEAN :
          \E env \in EnvsFor(push, fetch) : Sync(push, fetch, env)

SpecSync == Init /\ [][NextSync]_vars

(* SpecForeign: the records namespace also receives notes that are not    *)
(* records                                                                 *)

NextForeign ==
    \/ \E adr \in PlainRecords : Create(adr)
    \/ \E c \in Commits, doc \in ForeignDocs : ForeignNote(c, doc)
    \/ \E id \in {format_id(1)} : Delete(id)

SpecForeign == Init /\ [][NextForeign]_vars

(* SpecEdit: records are created, some by other tools, and edited *)

NextEdit ==
    \/ \E adr \in EditRecords : Create(adr)
    \/ \E c \in EditCommits : ForeignNote(c, LegacyDoc)
    \/ \E args \in EditArgs : Edit(args)

SpecEdit == Init /\ [][NextEdit]_vars

(* SpecWide: records whose numbers have outgrown the configured width *)

NextWide ==
    \/ \E adr \in WideRecords : Create(adr)
    \/ \E id \in WideIds : Delete(id)

SpecWide == Init /\ [][NextWide]_vars

(* SpecNumber: records under ids of every shape and notes without an id *)
(* are created and deleted                                               *)

NextNumber ==
    \/ \E adr \in NumberRecords : Create(adr)
    \/ \E c \in Commits : ForeignNote(c, LegacyDoc)
    \/ \E id \in NumberIds : Delete(id)

SpecNumber == Init /\ [][NextNumber]_vars

(* SpecAnchor: the index commit of repositories of any history *)

NextAnchor ==
    \/ AnchorSave
    \/ \E c \in 1..MaxHistory : AnchorSwitch(c)
    \/ AnchorLoad

SpecAnchor == InitAnchor /\ [][NextAnchor]_vars

(* SpecSaveLoad: indexes are saved and loaded; HEAD moves along a history *)
(* that does not change                                                    *)

NextSaveLoad ==
    \/ \E c \in Commits : Checkout(c)
    \/ \E index \in Indexes : IndexSave(index)
    \/ IndexLoad

SpecSaveLoad == InitSaveLoad /\ [][NextSaveLoad]_vars

(* SpecTemplates: one template engine and its callers *)

NextTemplates ==
    \/ \E name \in {"custom", "nygard"}, content \in TemplateTexts :
          AddTemplate(name, content)
    \/ \E name \in TemplateNames, context \in Contexts : Render(name, context)
    \/ \E name \in TemplateNames : GetTemplate(name)

SpecTemplates == InitTemplates /\ [][NextTemplates]_vars

(* SpecParse: a text is parsed *)

NextParse == ParseText

SpecParse == InitParse /\ [][NextParse]_vars

(* SpecSupersede: records are created, commits are made and records are *)
(* superseded                                                              *)

NextSupersede ==
    \/ \E c \in EditCommits : Checkout(c)
    \/ \E adr \in EditRecords : Create(adr)
    \/ \E args \in SupersedeArgs : Supersede(args)

SpecSupersede == Init /\ [][NextSupersede]_vars

(* SpecLink: records are created, some without an id in their frontmatter, *)
(* commits are made and records are linked to other commits                  *)

NextLink ==
    \/ \E c \in EditCommits : Checkout(c)
    \/ \E adr \in LinkRecords : Create(adr)
    \/ \E c \in EditCommits : ForeignNote(c, LegacyDoc)
    \/ \E args \in LinkArgs : Link(args)

SpecLink == Init /\ [][NextLink]_vars

(* SpecArtifacts: records are created, given artifacts, removed and moved *)

NextArtifacts ==
    \/ \E adr \in ArtifactRecords : Create(adr)
    \/ \E args \in AttachArgs : AttachRun(args)
    \/ \E args \in RmArgs : Rm(args)
    \/ \E args \in ArtifactLinkArgs : Link(args)
    \/ \E args \in ArtifactsArgs : ArtifactsRun(args)

SpecArtifacts == Init /\ [][NextArtifacts]_vars

(* SpecResolve: the commands that take an ADR argument are run on records *)
(* created on the commits HEAD moves between                               *)

NextResolve ==
    \/ \E c \in EditCommits : Checkout(c)
    \/ \E adr \in ArtifactRecords : Create(adr)
    \/ \E args \in ShowArgs : Show(args)
    \/ \E args \in ResolveEditArgs : Edit(args)
    \/ \E args \in ResolveRmArgs : Rm(args)
    \/ \E args \in ResolveSupersedeArgs : Supersede(args)
    \/ \E args \in ResolveLinkArgs : Link(args)

SpecResolve == Init /\ [][NextResolve]_vars

(* SpecSearch: records are created by `new`, edited, removed and searched; *)
(* the index is never rebuilt                                              *)

NextSearch ==
    \/ \E c \in EditCommits : Checkout(c)
    \/ NewRun(SheetPG, None)
    \/ \E args \in SearchEditArgs : Edit(args)
    \/ \E args \in SearchRmArgs : Rm(args)
    \/ \E args \in SearchArgs : SearchRun(args)

SpecSearch == Init /\ [][NextSearch]_vars

(* SpecSyncCommand: records and attachments are created here and on another *)
(* clone, and `sync` is run with and without its options                     *)

NextSyncCommand ==
    \/ Create(SyncRecord)
    \/ Attach(1)
    \/ \E ref \in {ADR_NOTES_REF, ARTIFACTS_NOTES_REF} : RemotePush(CloneRecord, ref)
    \/ \E args \in SyncArgs :
          \E env \in EnvsFor(args.push \/ ~args.pull, args.pull \/ ~args.push) :
             SyncRun(args, env)

SpecSyncCommand == Init /\ [][NextSyncCommand]_vars

(* SpecCommand: `init` and `new` are run from the command line, commits *)
(* are made                                                               *)

NextCommand ==
    \/ \E c \in CommandCommits : Checkout(c)
    \/ \E args \in InitArgsDefaultPrefix : InitRun(args)
    \/ \E args \in NewArgs : New(args)

SpecCommand == Init /\ [][NextCommand]_vars

(* SpecInit: `init` is run again and again *)

NextInit == \E args \in InitArgs : InitRun(args)

SpecInit == Init /\ [][NextInit]_vars

(* SpecFormat: a number is formatted as an id *)

NextFormat == FormatId

SpecFormat == InitFormat /\ [][NextFormat]_vars

(* SpecRoundTrip: a record is serialized and the text parsed back *)

NextRoundTrip == Serialize \/ Parse

SpecRoundTrip == InitRoundTrip /\ [][NextRoundTrip]_vars

(* SpecNew: records are only ever created by `new`, nothing is deleted *)

NextNew ==
    \/ \E c \in Commits : Checkout(c)
    \/ \E sheet \in Sheets, link \in Links : NewRun(sheet, link)

SpecNew == Init /\ [][NextNew]_vars

(* SpecAlloc: `new` and delete, one process at a time *)

NextAlloc ==
    \/ \E c \in Commits : Checkout(c)
    \/ \E link \in Links : NewRun(SheetPG, link)
    \/ \E id \in Ids : Delete(id)

SpecAlloc == Init /\ [][NextAlloc]_vars

----------------------------------------------------------------------------
(* Properties *)

AdrNotes(ns) == {n \in ns : n.ref = ADR_NOTES_REF}
NotesAt(ns, c) == {n \in AdrNotes(ns) : n.commit = c}
Annotated(ns) == {n.commit : n \in AdrNotes(ns)}
ListedIds(ns) == UNION {{l[i].id : i \in 1..Len(l)} : l \in {list(ns)}}
\* the numeric suffix of an id, None when it has none
suffix_of(id) ==
    IF is_some(strip_prefix(id, prefix))
    THEN parse_u32(unwrap(strip_prefix(id, prefix)))
    ELSE None
\* the record delete(id) resolves carries the highest numeric suffix listed
DeletesHighest(ns, id) ==
    /\ is_some(get(ns, id))
    /\ is_some(suffix_of(id))
    /\ \A n \in suffixes(list(ns)) : n <= unwrap(suffix_of(id))

\* C1: every commit holds at most one note of the records namespace, and a
\* create aimed at a commit that already holds a record succeeds and leaves
\* exactly the newly written record on that commit.
C1_OneRecordPerCommit ==
    [][/\ \A c \in Commits : Cardinality(NotesAt(notes, c)) <= 1
       /\ \A c \in Commits : Cardinality(NotesAt(notes', c)) <= 1
       /\ \A adr \in Records :
            (/\ last'.op = "create"
             /\ last'.id = adr.id
             /\ NotesAt(notes, create_commit(HEAD, adr)) # {}
             /\ Create(adr))
            => /\ last'.res = "ok"
               /\ NotesAt(notes', create_commit(HEAD, adr))
                    = {[ref |-> ADR_NOTES_REF, commit |-> create_commit(HEAD, adr),
                        content |-> stripspace_content(to_markdown(adr))]}
               /\ \A g \in {get_by_commit(notes', create_commit(HEAD, adr))} :
                    /\ is_some(g)
                    /\ unwrap(g).frontmatter.title = adr.frontmatter.title
                    /\ unwrap(g).frontmatter.status = adr.frontmatter.status
                    /\ unwrap(g).frontmatter.tags = adr.frontmatter.tags
                    /\ unwrap(g).body = adr.body]_vars

\* a create has replaced the record of an annotated commit by a different one
C1_Witness ==
    /\ last.op = "create"
    /\ last.res = "ok"
    /\ last.before = Cardinality(AdrNotes(notes))
    /\ last.changed

\* C2 as stated: after a successful create(r) the record sits on r.commit (the
\* head revision when r.commit is empty) and get(r.id) and get_by_commit of
\* that commit return it with r's title and status.
C2_Original ==
    [][\A adr \in Records :
        (/\ last'.op = "create"
         /\ last'.res = "ok"
         /\ last'.id = adr.id
         /\ Create(adr))
        => LET c == IF adr.commit = EmptyCommit THEN HEAD ELSE adr.commit
           IN  /\ is_some(get(notes', adr.id))
               /\ unwrap(get(notes', adr.id)).commit = c
               /\ unwrap(get(notes', adr.id)).frontmatter.title = adr.frontmatter.title
               /\ unwrap(get(notes', adr.id)).frontmatter.status = adr.frontmatter.status
               /\ is_some(get_by_commit(notes', c))
               /\ unwrap(get_by_commit(notes', c)).id = adr.id
               /\ unwrap(get_by_commit(notes', c)).frontmatter.title = adr.frontmatter.title
               /\ unwrap(get_by_commit(notes', c)).frontmatter.status = adr.frontmatter.status]_vars

\* what a caller reads after create(adr) wrote to commit c: l is list(), g is
\* get_by_commit(c), and get(adr.id) is the first record of l with that id
ReadsBack(adr, c, l, g) ==
    /\ \E i \in 1..Len(l) :
          /\ l[i].id = adr.id
          /\ l[i].commit = c
          /\ l[i].frontmatter.title = adr.frontmatter.title
          /\ l[i].frontmatter.status = adr.frontmatter.status
    /\ is_some(g)
    /\ unwrap(g).id = adr.id
    /\ unwrap(g).commit = c
    /\ unwrap(g).frontmatter.title = adr.frontmatter.title
    /\ unwrap(g).frontmatter.status = adr.frontmatter.status
    /\ is_some(find_id(l, adr.id))
    /\ (\A i \in 1..Len(l) : l[i].id = adr.id => l[i].commit = c)
         => find_id(l, adr.id) = g
    /\ (adr = [AdrNew(adr.id, adr.frontmatter.title) EXCEPT !.commit = adr.commit])
         => unwrap(g).frontmatter.status = "proposed"

\* C2 amended: for a record r whose frontmatter id is r.id, after a successful
\* create(r) the record sits on r.commit (the head revision when r.commit is
\* empty), list() holds a record with id r.id on that commit with r's title
\* and status, get_by_commit of that commit returns it, and get(r.id) returns
\* it when no other commit holds a record listed under the same id.
C2_CreateThenRead ==
    [][\A adr \in Records :
        (/\ last'.op = "create"
         /\ last'.res = "ok"
         /\ last'.id = adr.id
         /\ adr.frontmatter.id = Some(adr.id)
         /\ NotesAt(notes', create_commit(HEAD, adr)) # {}
         /\ Create(adr))
        => \A c \in {IF adr.commit = EmptyCommit THEN HEAD ELSE adr.commit} :
             \A l \in {list(notes')}, g \in {get_by_commit(notes', c)} :
                ReadsBack(adr, c, l, g)]_vars

\* a record built by Adr::new with an empty commit was created on the head
\* revision and is read back under its id with status proposed
C2_Witness ==
    /\ last.op = "create"
    /\ last.res = "ok"
    /\ last.id = format_id(2)
    /\ HEAD = 2
    /\ is_some(get(notes, last.id))
    /\ unwrap(get(notes, last.id)).commit = HEAD
    /\ unwrap(get(notes, last.id)).frontmatter.status = "proposed"
    /\ NotesAt(notes, 1) # {}

\* C3 as stated: deleting the record with the highest numeric suffix leaves
\* next_number() unchanged.
C3_Original ==
    [][\A id \in Ids :
        (/\ last'.op = "delete"
         /\ last'.res = "ok"
         /\ last'.id = id
         /\ Delete(id)
         /\ DeletesHighest(notes, id))
        => next_number(notes') = next_number(notes)]_vars

\* C3 amended: deleting the record with the highest numeric suffix never raises
\* next_number(); the value returned afterwards is one more than the highest
\* suffix still listed, and when no other record carries the deleted suffix it
\* is at most the deleted number, so that number is issued again.
C3_DeleteHighestLowers ==
    [][\A id \in Ids :
        (/\ last'.op = "delete"
         /\ last'.res = "ok"
         /\ last'.id = id
         /\ Delete(id)
         /\ DeletesHighest(notes, id))
        => /\ next_number(notes') <= next_number(notes)
           /\ \A n \in suffixes(list(notes')) : n < next_number(notes')
           /\ (next_number(notes') = 1
               \/ next_number(notes') - 1 \in suffixes(list(notes')))
           /\ (unwrap(suffix_of(id)) \notin suffixes(list(notes')))
                => next_number(notes') <= unwrap(suffix_of(id))]_vars

\* the record numbered 2 was the highest and has been deleted: 2 is next again
C3_Witness ==
    /\ last.op = "delete"
    /\ last.res = "ok"
    /\ last.id = format_id(2)
    /\ last.before = 2
    /\ ListedIds(notes) = {format_id(1)}
    /\ next_number(notes) = 2

\* C4: with records created only by `new` and nothing deleted, next_number()
\* is one more than the number of records created, whatever commits they
\* were attached to.
C4_NextIsCountPlusOne == next_number(notes) = created + 1

\* three records were created and one of them overwrote another
C4_Witness ==
    /\ created = 3
    /\ last.op = "new"
    /\ Cardinality(AdrNotes(notes)) = 2

\* C5: deleting a record whose numeric suffix is not the highest leaves
\* next_number() unchanged; with records 1, 2, 3 on three commits, after the
\* delete of number 2 next_number() is 4.
C5_NoGapFilling ==
    [][\A id \in Ids :
        (last'.op = "delete" /\ last'.res = "ok" /\ last'.id = id /\ Delete(id))
        => /\ (/\ is_some(suffix_of(id))
               /\ \E n \in suffixes(list(notes)) : n > unwrap(suffix_of(id)))
              => next_number(notes') = next_number(notes)
           /\ (/\ id = format_id(2)
               /\ Len(list(notes)) = 3
               /\ ListedIds(notes) = {format_id(1), format_id(2), format_id(3)}
               /\ Cardinality(Annotated(notes)) = 3)
              => next_number(notes') = 4]_vars

\* scenario B: of the records 1, 2, 3 number 2 has been deleted
C5_Witness ==
    /\ last.op = "delete"
    /\ last.res = "ok"
    /\ last.id = format_id(2)
    /\ last.before = 3
    /\ ListedIds(notes) = {format_id(1), format_id(3)}
    /\ next_number(notes) = 4

\* the position of the first listed record whose id equals q, 0 when none
FirstEqual(l, q) ==
    IF \E i \in 1..Len(l) : l[i].id = q
    THEN CHOOSE i \in 1..Len(l) : l[i].id = q /\ \A j \in 1..(i - 1) : l[j].id # q
    ELSE 0
\* the position of the first listed record whose id equals or contains q
FirstContaining(l, q) ==
    IF \E i \in 1..Len(l) : l[i].id = q \/ contains(l[i].id, q)
    THEN CHOOSE i \in 1..Len(l) :
            /\ (l[i].id = q \/ contains(l[i].id, q))
            /\ \A j \in 1..(i - 1) : ~(l[j].id = q \/ contains(l[j].id, q))
    ELSE 0

\* C6 as stated: get(q) returns the first listed record whose id equals or
\* contains q, and fails only when no listed id contains q.
C6_Original ==
    \A q \in Queries :
        LET l == list(notes)
            k == FirstContaining(l, q)
        IN  /\ k > 0 => (is_some(get(notes, q)) /\ unwrap(get(notes, q)) = l[k])
            /\ k = 0 <=> ~is_some(get(notes, q))

\* C6 amended: get(q) returns the first record, in the sorted order of list(),
\* whose id equals q, and fails with a not-found error exactly when no listed
\* id equals q; an id that merely contains q is not a match.
C6_GetIsExact ==
    /\ \A q \in Queries :
        LET l == list(notes)
            k == FirstEqual(l, q)
        IN  /\ k > 0 => (is_some(get(notes, q)) /\ unwrap(get(notes, q)) = l[k])
            /\ k = 0 <=> ~is_some(get(notes, q))
    /\ last.op = "get" =>
        (last.res = "AdrNotFound" <=> last.id \notin ListedIds(notes))
    /\ \A i \in 1..(Len(list(notes)) - 1) :
        cmp(list(notes)[i].id, list(notes)[i + 1].id) <= 0

\* get was asked for a part of a listed id and answered not-found
C6_Witness ==
    /\ last.op = "get"
    /\ last.res = "AdrNotFound"
    /\ \E id \in ListedIds(notes) : contains(id, last.id)

\* C7: a successful update leaves the set of annotated commits as it was and
\* the record with that id on the commit it had, whatever commit the passed
\* record carries.
C7_UpdateKeepsCommit ==
    [][\A adr \in Edits :
        (/\ last'.op = "update"
         /\ last'.res = "ok"
         /\ last'.id = adr.id
         /\ Update(adr))
        => /\ Annotated(notes') = Annotated(notes)
           /\ is_some(get(notes', adr.id))
           /\ unwrap(get(notes', adr.id)).commit = unwrap(get(notes, adr.id)).commit]_vars

IndexNotes(ns) == {n \in ns : n.ref = INDEX_NOTES_REF}

C9_RebuildIsProjection ==
    [][(last'.op = "rebuild" /\ last'.res = "ok")
       => LET idx == load(notes', HEAD')
              l == list(notes)
          IN  /\ list(notes') = l
              /\ Cardinality(IndexNotes(notes')) = 1
              /\ idx.version = 1
              /\ DOMAIN idx.entries = ListedIds(notes)
              /\ \A id \in DOMAIN idx.entries :
                    /\ idx.entries[id].id = id
                    /\ \E i \in 1..Len(l) :
                          /\ l[i].id = id
                          /\ idx.entries[id].commit = l[i].commit
                          /\ idx.entries[id].title = l[i].frontmatter.title
                          /\ idx.entries[id].status = l[i].frontmatter.status
                          /\ idx.entries[id].tags = l[i].frontmatter.tags
              /\ \A id \in DOMAIN load(notes, HEAD).entries :
                    id \notin ListedIds(notes) => id \notin DOMAIN idx.entries]_vars

\* a rebuild has dropped an entry of the earlier index and stored the records
\* now listed
C9_Witness ==
    /\ last.op = "rebuild"
    /\ last.res = "ok"
    /\ last.changed
    /\ last.indexed = 2
    /\ DOMAIN load(notes, HEAD).entries = {format_id(2)}
    /\ load(notes, HEAD).entries[format_id(2)].commit = 2

\* a record with this id is listed on this commit
Listed(ns, id, c) ==
    \E i \in 1..Len(list(ns)) : list(ns)[i].id = id /\ list(ns)[i].commit = c

\* C10: when a process creates the record of a number that the other process
\* has allocated too and already created on a different commit, neither is
\* given an error and the records namespace then holds two records with the
\* same id.
C10_RaceDuplicatesId ==
    [][\A p \in Procs, q \in Procs :
        (/\ p # q
         /\ pc[p] = "allocated"
         /\ pc'[p] = "done"
         /\ pc[q] = "done"
         /\ num[q] = num[p]
         /\ NewCreate(p)
         /\ Listed(notes, format_id(num[q]), target[q].commit)
         /\ target'[p].commit # target[q].commit)
        => /\ outcome'[p] = "ok"
           /\ outcome[q] = "ok"
           /\ Listed(notes', format_id(num[p]), target'[p].commit)
           /\ Listed(notes', format_id(num[p]), target[q].commit)
           /\ Len(list(notes')) = Len(list(notes)) + 1
              \/ NotesAt(notes, target'[p].commit) # {}]_vars

\* the interleaving happens: both runs allocated the same number before
\* either created, and both records are listed under one id
C10_Witness ==
    /\ pc[1] = "done"
    /\ pc[2] = "done"
    /\ num[1] = num[2]
    /\ outcome[1] = "ok"
    /\ outcome[2] = "ok"
    /\ target[1].commit # target[2].commit
    /\ Listed(notes, format_id(num[1]), target[1].commit)
    /\ Listed(notes, format_id(num[2]), target[2].commit)

\* C11: the save of a rebuild succeeds and makes the index that process built
\* from its own listing the persisted one, whatever another process saved or
\* the store received in between: the rebuild that saves last wins.
C11_LastRebuildWins ==
    [][\A p \in Procs :
        (pc[p] = "listed" /\ pc'[p] = "saved" /\ RebuildSave(p))
        => /\ outcome'[p] = "ok"
           /\ load(notes', HEAD') = unwrap(built[p])
           /\ Cardinality(IndexNotes(notes')) = 1
           /\ AdrNotes(notes') = AdrNotes(notes)]_vars

\* both rebuilds have finished; process 2 built the projection of what is
\* listed now, yet the persisted index is the smaller one process 1 built
\* from the earlier listing
C11_Witness ==
    /\ pc[1] = "saved"
    /\ pc[2] = "saved"
    /\ outcome[1] = "ok"
    /\ outcome[2] = "ok"
    /\ unwrap(built[2]) = upsert_all(SearchIndexNew, list(notes))
    /\ DOMAIN unwrap(built[1]).entries # DOMAIN unwrap(built[2]).entries
    /\ DOMAIN unwrap(built[1]).entries \subseteq DOMAIN unwrap(built[2]).entries
    /\ load(notes, HEAD) = unwrap(built[1])
    /\ DOMAIN load(notes, HEAD).entries # ListedIds(notes)

\* the git calls of the last sync include this one
HasCall(tr, c) == \E i \in 1..Len(tr) : tr[i] = c

\* the step is sync(push, fetch, env): it made these calls, returned this
\* result and left the local and remote notes as sync computes them
SyncStep(push, fetch, env) ==
    /\ push <=> \E i \in 1..Len(trace') : trace'[i].call = "push"
    /\ fetch <=> \E i \in 1..Len(trace') : trace'[i].call = "fetch"
    /\ HasCall(trace', Call("fetch", ADR_NOTES_REF, "ok")) => env.fetch_adr
    /\ HasCall(trace', Call("fetch", ARTIFACTS_NOTES_REF, "ok")) => env.fetch_art
    /\ HasCall(trace', Call("push", ADR_NOTES_REF, "ok")) => env.push_adr
    /\ HasCall(trace', Call("push", ARTIFACTS_NOTES_REF, "ok")) => env.push_art
    /\ \E r \in {sync(notes, remote, push, fetch, env)} :
        /\ trace' = r.trace
        /\ last'.res = r.res
        /\ notes' = r.notes
        /\ remote' = r.remote

\* C12: sync fails exactly when a push is requested and the push of the
\* records namespace fails (the remote refuses it or there is nothing to
\* push); failed fetches and a failed push of the artifacts namespace leave
\* the result ok.
C12_SyncFailsOnlyOnRecordsPush ==
    [][(last'.op = "sync") =>
        \A push \in BOOLEAN, fetch \in BOOLEAN :
          \A env \in EnvsFor(push, fetch) :
            SyncStep(push, fetch, env)
            => /\ last'.res \in {"ok", "Git"}
               /\ (last'.res = "Git")
                    <=> (push /\ HasCall(trace', Call("push", ADR_NOTES_REF, "Git")))
               /\ (last'.res = "Git")
                    <=> (push /\ (~env.push_adr \/ ~ref_exists(notes', ADR_NOTES_REF)))
               /\ (~push) => \A i \in 1..Len(trace') : trace'[i].call # "push"
               /\ fetch => /\ \E i \in 1..Len(trace') :
                                 trace'[i].call = "fetch" /\ trace'[i].ref = ADR_NOTES_REF
                           /\ \E i \in 1..Len(trace') :
                                 trace'[i].call = "fetch"
                                 /\ trace'[i].ref = ARTIFACTS_NOTES_REF]_vars

\* a sync with both fetches and the artifacts push failed returned ok
C12_Witness ==
    /\ last.op = "sync"
    /\ last.res = "ok"
    /\ trace = <<Call("fetch", ADR_NOTES_REF, "Git"),
                 Call("fetch", ARTIFACTS_NOTES_REF, "Git"),
                 Call("push", ADR_NOTES_REF, "ok"),
                 Call("push", ARTIFACTS_NOTES_REF, "Git")>>

\* C13: when the push of the records namespace fails, the failed push is the
\* last git call of the sync: no push of the artifacts namespace is made and
\* the remote is left as it was.
C13_FailedPushAborts ==
    [][(last'.op = "sync") =>
        \A push \in BOOLEAN, fetch \in BOOLEAN :
          \A env \in EnvsFor(push, fetch) :
            (/\ HasCall(trace', Call("push", ADR_NOTES_REF, "Git"))
             /\ SyncStep(push, fetch, env))
            => /\ trace'[Len(trace')] = Call("push", ADR_NOTES_REF, "Git")
               /\ \A i \in 1..Len(trace') :
                     ~(trace'[i].call = "push" /\ trace'[i].ref = ARTIFACTS_NOTES_REF)
               /\ remote' = remote
               /\ last'.res = "Git"]_vars

\* the records push was refused while attachments were waiting to be pushed
\* and the remote would have taken them: they were not pushed
C13_Witness ==
    /\ last.op = "sync"
    /\ last.res = "Git"
    /\ trace = <<Call("push", ADR_NOTES_REF, "Git")>>
    /\ ref_exists(notes, ADR_NOTES_REF)
    /\ ref_exists(notes, ARTIFACTS_NOTES_REF)
    /\ ~ref_exists(remote, ARTIFACTS_NOTES_REF)

\* C14: update(record) and delete(id) called with an id that no listed
\* record carries return the not-found error and leave the notes as they
\* were.  The steps that record an update or a delete and leave HEAD are
\* the calls; last'.id is the id the call was made with.
C14_NotFoundChangesNothing ==
    [][(/\ last'.op \in {"update", "delete"}
        /\ HEAD' = HEAD
        /\ last'.id \notin ListedIds(notes))
       => last'.res = "AdrNotFound" /\ notes' = notes]_vars

\* an update of an id that is not listed was refused while other records
\* are in the store
C14_Witness ==
    /\ last.op = "update"
    /\ last.res = "AdrNotFound"
    /\ last.id = format_id(2)
    /\ ~last.changed
    /\ ListedIds(notes) = {format_id(1)}

\* C15: a successful delete(id) removes the one note that sits on the commit
\* of the record get(id) resolved and nothing else, in any namespace; when
\* the id was listed once, it is no longer listed and get(id) finds nothing.
C15_DeleteRemovesOneNote ==
    [][(last'.op = "delete" /\ HEAD' = HEAD /\ last'.res = "ok")
       => \A found \in {get(notes, last'.id)} :
            \A l \in {list(notes)} :
              /\ is_some(found)
              /\ Cardinality(NotesAt(notes, unwrap(found).commit)) = 1
              /\ notes' = notes \ NotesAt(notes, unwrap(found).commit)
              /\ Cardinality(notes') = Cardinality(notes) - 1
              /\ Cardinality({i \in 1..Len(l) : l[i].id = last'.id}) = 1
                 => /\ last'.id \notin ListedIds(notes')
                    /\ ~is_some(get(notes', last'.id))]_vars

\* record 1 of two records has been deleted; record 2 is still there
C15_Witness ==
    /\ last.op = "delete"
    /\ last.res = "ok"
    /\ last.id = format_id(1)
    /\ last.before = 2
    /\ last.changed
    /\ ListedIds(notes) = {format_id(2)}
    /\ ~is_some(get(notes, format_id(1)))

\* the notes of the records namespace that parse as a record
Parseable(ns) == {n \in AdrNotes(ns) : parse_frontmatter(n.content).res = "ok"}

\* C16: whatever mix of records and notes that do not parse the records
\* namespace holds, list() returns one record for each note that parses, with
\* the id extract_id gives it, the note's commit and its parsed content, in
\* ascending id order, and nothing for the others.
C16_ListSkipsUnparseable ==
    \A l \in {list(notes)} :
        /\ Len(l) = Cardinality(Parseable(notes))
        /\ {l[i] : i \in 1..Len(l)}
             = {[id |-> extract_id(n.content, n.commit),
                 commit |-> n.commit,
                 frontmatter |-> parse_frontmatter(n.content).frontmatter,
                 body |-> parse_frontmatter(n.content).body] :
                    n \in Parseable(notes)}
        /\ \A i \in 1..Len(l), j \in 1..Len(l) :
              i < j => cmp(l[i].id, l[j].id) <= 0

\* a record, a foreign note that parses and a note without a title that
\* names an id: two are listed, the id of the third is not
C16_Witness ==
    /\ Cardinality(AdrNotes(notes)) = 3
    /\ Len(list(notes)) = 2
    /\ ListedIds(notes) = {format_id(1), prefix \o short_hash(2)}
    /\ \E n \in AdrNotes(notes) :
          extract_id(n.content, n.commit) = format_id(2) /\ n \notin Parseable(notes)

\* C17 as stated: the record parsed back from the serialization of r has
\* every frontmatter field and the body equal to those of r.
C17_Original ==
    is_some(sample.text)
    => /\ from_markdown(unwrap(sample.adr).id, unwrap(sample.adr).commit,
                        unwrap(sample.text)) # None
       /\ is_some(sample.back)
          => /\ unwrap(sample.back).frontmatter = unwrap(sample.adr).frontmatter
             /\ unwrap(sample.back).body = unwrap(sample.adr).body

\* C17 amended: the serialization of r always parses; the record parsed back
\* has the id, title, status, tags, format and extension keys of r, a date
\* exactly when r has one, on the same day and at midnight, and the body of
\* r with the whitespace around it trimmed.  It is field-equal to r when r
\* has no date or one at midnight and a body without surrounding whitespace.
C17_RoundTripUpToDayAndTrim ==
    /\ is_some(sample.text)
       => is_some(from_markdown(unwrap(sample.adr).id, unwrap(sample.adr).commit,
                                unwrap(sample.text)))
    /\ is_some(sample.back)
       => \A r \in {unwrap(sample.adr)}, b \in {unwrap(sample.back)} :
            /\ b.id = r.id
            /\ b.commit = r.commit
            /\ b.frontmatter.id = r.frontmatter.id
            /\ b.frontmatter.title = r.frontmatter.title
            /\ b.frontmatter.status = r.frontmatter.status
            /\ b.frontmatter.tags = r.frontmatter.tags
            /\ b.frontmatter.format = r.frontmatter.format
            /\ b.frontmatter.custom = r.frontmatter.custom
            /\ is_some(b.frontmatter.date) <=> is_some(r.frontmatter.date)
            /\ is_some(r.frontmatter.date)
               => /\ unwrap(b.frontmatter.date).day = unwrap(r.frontmatter.date).day
                  /\ unwrap(b.frontmatter.date).secs = 0
            /\ b.body = trim(r.body)
            /\ (/\ (is_some(r.frontmatter.date) => unwrap(r.frontmatter.date).secs = 0)
                /\ r.body = trim(r.body))
               => b.frontmatter = r.frontmatter /\ b.body = r.body

\* a record with a midnight date, tags, a format, an extension key and a
\* trimmed body came back field-equal
C17_Witness ==
    /\ is_some(sample.back)
    /\ unwrap(sample.adr).frontmatter.date = Some(DateTime(2, 0))
    /\ unwrap(sample.adr).frontmatter.custom = [team |-> EXT_TEAM]
    /\ unwrap(sample.adr).frontmatter.tags # <<>>
    /\ is_some(unwrap(sample.adr).frontmatter.format)
    /\ unwrap(sample.adr).body = BODY_TXT
    /\ unwrap(sample.back).frontmatter = unwrap(sample.adr).frontmatter
    /\ unwrap(sample.back).body = unwrap(sample.adr).body

\* the record a is the record b with the quick edits of args applied and,
\* when sameDate is FALSE, its date moved to midnight of the same day
Edited(b, a, args, sameDate) ==
    /\ a.id = b.id
    /\ a.commit = b.commit
    /\ a.body = b.body
    /\ a.frontmatter.id = b.frontmatter.id
    /\ a.frontmatter.format = b.frontmatter.format
    /\ a.frontmatter.custom = b.frontmatter.custom
    /\ a.frontmatter.status =
          (IF is_some(args.status) THEN unwrap(args.status) ELSE b.frontmatter.status)
    /\ a.frontmatter.title =
          (IF is_some(args.title) THEN unwrap(args.title) ELSE b.frontmatter.title)
    /\ a.frontmatter.tags =
          (IF is_some(args.add_tag) THEN Append(b.frontmatter.tags, unwrap(args.add_tag))
           ELSE IF is_some(args.remove_tag)
                THEN remove_first(b.frontmatter.tags, unwrap(args.remove_tag))
                ELSE b.frontmatter.tags)
    /\ IF sameDate THEN a.frontmatter.date = b.frontmatter.date
       ELSE /\ is_some(a.frontmatter.date) <=> is_some(b.frontmatter.date)
            /\ is_some(b.frontmatter.date)
               => a.frontmatter.date =
                    Some(DateTime(unwrap(b.frontmatter.date).day, 0))

\* an edit that modified the record it read: the record is read again, by
\* the same search and by its commit, and compared with the one read before
EditReadsBack(sameDate) ==
    \A args \in EditArgs :
        (last'.op = "edit" /\ last'.id = args.adr_id /\ last'.res = "ok" /\ Edit(args))
        => \A b \in {find_id_contains(list(notes), args.adr_id)},
              a \in {find_id_contains(list(notes'), args.adr_id)} :
             /\ is_some(b) /\ is_some(a)
             /\ Edited(unwrap(b), unwrap(a), args, sameDate)
             /\ get_by_commit(notes', unwrap(b).commit) = a
             /\ \A n \in notes' : n.commit # unwrap(b).commit => n \in notes
             /\ \A n \in notes : n.commit # unwrap(b).commit => n \in notes'

\* C18 as stated: after an edit that changed one frontmatter field, reading
\* the record again shows the change and every other field, date included,
\* as it was read before.
C18_Original == [][EditReadsBack(TRUE)]_vars

\* C18 amended: after an edit that changed one frontmatter field, reading
\* the record again shows the change; id, commit, body, frontmatter id,
\* format, extension keys and the fields not edited are as read before, the
\* date is on the same day at midnight (so unchanged when it was at midnight
\* or absent), and no note on another commit changed.
C18_EditKeepsOtherFields == [][EditReadsBack(FALSE)]_vars

\* a record with an extension key, a date and a tag has been given a second
\* tag by `edit` and is listed with both tags and the extension key
C18_Witness ==
    /\ last.op = "edit" /\ last.res = "ok" /\ last.changed
    /\ \E i \in DOMAIN list(notes) :
          /\ list(notes)[i].frontmatter.tags = <<TAG_DB, TAG_NEW>>
          /\ list(notes)[i].frontmatter.custom = [team |-> EXT_TEAM]
          /\ is_some(list(notes)[i].frontmatter.date)
          /\ list(notes)[i].body = BODY_TXT

\* s contains q when upper and lower case letters are taken as the same
ContainsIgnoringCase(s, q) ==
    \E i \in 1..(Len(s) - Len(q) + 1) :
        \A j \in 1..Len(q) : LowerOf[s[i + j - 1]] = LowerOf[q[j]]

\* title, tags and body of a record, separated by spaces
AggregateText(adr) ==
    adr.frontmatter.title \o <<" ">> \o join(adr.frontmatter.tags, <<" ">>)
        \o <<" ">> \o adr.body

\* the listed records an index built from l has entries of: for each id the
\* last one listed under it
Indexed(l) == {i \in 1..Len(l) : \A j \in (i + 1)..Len(l) : l[j].id # l[i].id}

\* C19: when the last operation was a successful rebuild, search(query)
\* returns the entries of exactly those records whose id, title or aggregate
\* text (title, tags, body) contains the query ignoring case; when the only
\* record is titled "Use PostgreSQL", search("postgres") returns exactly the
\* entry with that record's id.
C19_SearchAfterRebuild ==
    (last.op = "rebuild" /\ last.res = "ok")
    => \A l \in {list(notes)} :
         /\ \A q \in SearchQueries :
               search(notes, HEAD, q) =
                 {from_adr(l[i]) :
                    i \in {k \in Indexed(l) :
                             \/ ContainsIgnoringCase(l[k].id, q)
                             \/ ContainsIgnoringCase(l[k].frontmatter.title, q)
                             \/ ContainsIgnoringCase(AggregateText(l[k]), q)}}
         /\ (Len(l) = 1 /\ l[1].frontmatter.title = T_PG)
            => {e.id : e \in search(notes, HEAD, T_QUERY)} = {l[1].id}

\* after a rebuild with two records listed, search("postgres") returns one
\* of them by its title, search("db") the other by its tag, and
\* search("ADR-0002") the first by its id
C19_Witness ==
    /\ last.op = "rebuild"
    /\ last.res = "ok"
    /\ Len(list(notes)) = 2
    /\ {e.id : e \in search(notes, HEAD, T_QUERY)} = {format_id(2)}
    /\ {e.title : e \in search(notes, HEAD, TAG_DB)} = {T_RD}
    /\ {e.title : e \in search(notes, HEAD, format_id(2))} = {T_PG}

\* C20: a search changes nothing: the notes of every namespace, the
\* persisted index and the listed records are after it what they were before,
\* and the same search run again returns the same set of entries.
C20_SearchMutatesNothing ==
    [][(last'.op = "search" /\ HEAD' = HEAD)
       => /\ notes' = notes
          /\ ~last'.changed
          /\ IndexNotes(notes') = IndexNotes(notes)
          /\ AdrNotes(notes') = AdrNotes(notes)
          /\ load(notes', HEAD') = load(notes, HEAD)
          /\ \A q \in {last'.id} :
                /\ search(notes', HEAD', q) = search(notes, HEAD, q)
                /\ last'.res = (IF search(notes', HEAD', q) = {} THEN "none" ELSE "ok")]_vars

\* a search on a stored index has found entries and changed nothing
C20_Witness ==
    /\ last.op = "search"
    /\ last.id = T_QUERY
    /\ last.res = "ok"
    /\ ~last.changed
    /\ Cardinality(IndexNotes(notes)) = 1
    /\ search(notes, HEAD, T_QUERY) # {}

\* C21: for n below 10^digits, format_id(n) is the prefix followed by
\* exactly `digits` decimal digits whose value is n, the leading ones zeros,
\* and no other number below 10^digits is formatted to the same id.
C21_FormatIdPadsAndIsInjective ==
    (is_some(sample.id) /\ sample.number < Pow10(sample.config.digits))
    => \A id \in {unwrap(sample.id)}, c \in {sample.config} :
         /\ starts_with(id, c.prefix)
         /\ Len(id) = Len(c.prefix) + c.digits
         /\ \A i \in (Len(c.prefix) + 1)..Len(id) : is_digit(id[i])
         /\ decimal_value(SubSeq(id, Len(c.prefix) + 1, Len(id))) = sample.number
         /\ \A i \in (Len(c.prefix) + 1)..(Len(id) - Len(to_decimal(sample.number))) :
               id[i] = "0"
         /\ \A m \in 0..(Pow10(c.digits) - 1) :
               m # sample.number => format_id_with(c, m) # id

\* 42 was formatted with the custom prefix and three digits
C21_Witness ==
    /\ is_some(sample.id)
    /\ sample.number = 42
    /\ sample.config = [prefix |-> P_DECISION, digits |-> 3]
    /\ unwrap(sample.id) = P_DECISION \o <<"0", "4", "2">>

\* a is before b, or equal to it, in the order of plain text: a is a prefix
\* of b, or at the first position where they differ a has the smaller byte
TextLeq(a, b) ==
    \/ Len(a) <= Len(b) /\ \A i \in 1..Len(a) : a[i] = b[i]
    \/ \E k \in 1..Len(a) :
          /\ k <= Len(b)
          /\ \A i \in 1..(k - 1) : a[i] = b[i]
          /\ ByteOf[a[k]] < ByteOf[b[k]]

\* C22: list() is sorted by id compared as plain text, and when ADR-10000 and
\* ADR-9999 are both listed ADR-10000 comes first.
C22_ListSortedAsText ==
    \A l \in {list(notes)} :
        /\ \A i \in 1..(Len(l) - 1) : TextLeq(l[i].id, l[i + 1].id)
        /\ \A i, j \in 1..Len(l) :
              (l[i].id = format_id(10000) /\ l[j].id = format_id(9999)) => i < j

\* ADR-0002, ADR-10000 and ADR-9999 are listed in this order
C22_Witness ==
    /\ Len(list(notes)) = 3
    /\ list(notes)[1].id = format_id(2)
    /\ list(notes)[2].id = format_id(10000)
    /\ list(notes)[3].id = format_id(9999)

\* the parentless commits of a history, and those a commit descends from
Parentless(repo) == {c \in DOMAIN repo.parents : repo.parents[c] = {}}
RootsOf(repo, hd) ==
    IF is_some(hd) THEN Parentless(repo) \cap reachable(repo, unwrap(hd)) ELSE {}

\* the index commit as C23 states it
AnchorAsStated(repo, hd) ==
    IF Cardinality(Parentless(repo)) = 1 THEN CHOOSE c \in Parentless(repo) : TRUE
    ELSE IF is_some(hd) THEN unwrap(hd)
    ELSE EMPTY_TREE

\* C23 as stated: the index commit is the unique parentless commit of the
\* repository when there is one, otherwise the head revision, and the empty
\* tree when there are no commits; load picks the commit save picked.
C23_Original ==
    /\ (is_some(sample.saved) /\ sample.from = Some(sample.repo.head))
       => unwrap(sample.saved) = AnchorAsStated(sample.repo, sample.repo.head)
    /\ is_some(sample.loaded)
       => /\ unwrap(sample.loaded) = AnchorAsStated(sample.repo, sample.repo.head)
          /\ sample.loaded = sample.saved

\* the index commit as the code picks it
AnchorAsPicked(repo, hd) ==
    IF ~is_some(hd) THEN EMPTY_TREE
    ELSE CHOOSE c \in RootsOf(repo, hd) : \A d \in RootsOf(repo, hd) : d <= c

\* C23 amended: the index commit is the most recent of the parentless commits
\* HEAD descends from (the unique parentless commit when the repository has
\* only one), and the empty tree when the repository has no commits; it is
\* never a commit that has parents.  load and save pick the same commit as
\* long as HEAD descends from the same parentless commits, in particular
\* wherever HEAD is in a repository with one parentless commit.
C23_AnchorIsLatestRoot ==
    /\ is_some(sample.from) => is_some(sample.saved)
    /\ (is_some(sample.saved) /\ sample.from = Some(sample.repo.head))
       => /\ unwrap(sample.saved) = AnchorAsPicked(sample.repo, sample.repo.head)
          /\ Cardinality(Parentless(sample.repo)) = 1
             => unwrap(sample.saved) \in Parentless(sample.repo)
          /\ DOMAIN sample.repo.parents = {} <=> unwrap(sample.saved) = EMPTY_TREE
    /\ is_some(sample.loaded)
       => /\ unwrap(sample.loaded) = AnchorAsPicked(sample.repo, sample.repo.head)
          /\ RootsOf(sample.repo, unwrap(sample.from)) = RootsOf(sample.repo, sample.repo.head)
             => sample.loaded = sample.saved
          /\ Cardinality(Parentless(sample.repo)) <= 1 => sample.loaded = sample.saved

\* in a repository with two parentless commits joined by a merge, save and
\* load on the merge picked the later parentless commit
C23_Witness ==
    /\ is_some(sample.loaded)
    /\ sample.repo.parents = <<{}, {}, {1, 2}>>
    /\ sample.repo.head = Some(3)
    /\ sample.from = Some(Some(3))
    /\ sample.saved = Some(2)
    /\ sample.loaded = Some(2)

\* C24: load() after save(index) returns an index with the entries and the
\* version of the saved one, and load() when no index was ever saved returns
\* the empty index with version 1.
C24_SaveThenLoad ==
    is_some(sample.loaded)
    => IF is_some(sample.saved)
       THEN /\ unwrap(sample.loaded).entries = unwrap(sample.saved).entries
            /\ unwrap(sample.loaded).version = unwrap(sample.saved).version
       ELSE unwrap(sample.loaded) = [entries |-> <<>>, version |-> 1]

\* C25: render with a name that is not a registered template fails with
\* TemplateNotFound.
C25_RenderUnknownIsNotFound ==
    (sample.op = "render" /\ ~has_template(sample.tera, sample.name))
    => sample.res = "TemplateNotFound"

\* the first characters of t that are not whitespace are the delimiter
BeginsWithDelimiter(t) ==
    \E i \in 1..(Len(t) - 2) :
        /\ \A k \in 1..(i - 1) : is_whitespace(t[k])
        /\ t[i] = "-" /\ t[i + 1] = "-" /\ t[i + 2] = "-"

\* after that delimiter a line break is followed by three dashes
HasEndMarker(t) ==
    \E i \in 1..(Len(t) - 2) :
        /\ \A k \in 1..(i - 1) : is_whitespace(t[k])
        /\ t[i] = "-" /\ t[i + 1] = "-" /\ t[i + 2] = "-"
        /\ \E j \in (i + 3)..(Len(t) - 3) :
              t[j] = "\n" /\ t[j + 1] = "-" /\ t[j + 2] = "-" /\ t[j + 3] = "-"

\* C26: a text that does not begin with the delimiter, and a text whose
\* opening delimiter is followed by no end marker, each fail with a
\* ParseError; the message of the first says that the text must start with
\* frontmatter, the message of the second that the frontmatter must be
\* closed, and no record is produced.  No other text gets these messages.
C26_ParseErrorNamesCondition ==
    is_some(sample.parsed)
    => \A t \in {sample.text}, r \in {unwrap(sample.parsed)} :
         /\ ~BeginsWithDelimiter(t)
            => r = ParseError(MSG_START) /\ sample.adr = None
         /\ (BeginsWithDelimiter(t) /\ ~HasEndMarker(t))
            => r = ParseError(MSG_CLOSED) /\ sample.adr = None
         /\ (BeginsWithDelimiter(t) /\ HasEndMarker(t))
            => (r.res = "ok" \/ r = ParseError(MSG_YAML))
         /\ r.res = "ok" <=> is_some(sample.adr)
         /\ MSG_START # MSG_CLOSED

\* a text with an opening delimiter and a title but two dashes where the
\* end marker should be was refused as not closed
C26_WitnessUnclosed ==
    /\ is_some(sample.parsed)
    /\ sample.text = DELIMITER \o <<"\n">> \o TITLE_KEY \o <<"x", "\n", "-", "-">>
    /\ unwrap(sample.parsed) = ParseError(MSG_CLOSED)
    /\ sample.adr = None

\* C27: after a supersede that succeeded, the note on the head revision is
\* a record with the next allocated id, status proposed, supersedes set to
\* the id of the record that was found, and that record's tags; the note on
\* the commit of the record that was found is still that record, now with
\* status superseded and superseded_by set to the new id.
C27_SupersedeLinksBothRecords ==
    [][\A args \in SupersedeArgs :
        (last'.op = "supersede" /\ last'.id = args.adr_id /\ last'.res = "ok"
         /\ Supersede(args))
        => \A b \in {find_id_contains(list(notes), args.adr_id)},
              new_id \in {format_id(next_number(notes))},
              n \in {get_by_commit(notes', HEAD)} :
             /\ is_some(b) /\ is_some(n)
             /\ unwrap(n).id = new_id
             /\ new_id # unwrap(b).id
             /\ unwrap(n).frontmatter.status = "proposed"
             /\ unwrap(n).frontmatter.supersedes = Some(unwrap(b).id)
             /\ unwrap(n).frontmatter.tags = unwrap(b).frontmatter.tags
             /\ unwrap(n).frontmatter.title = args.title
             /\ \A o \in {get_by_commit(notes', unwrap(b).commit)} :
                   /\ is_some(o)
                   /\ unwrap(o).id = unwrap(b).id
                   /\ unwrap(o).frontmatter.status = "superseded"
                   /\ unwrap(o).frontmatter.superseded_by = Some(new_id)
                   /\ unwrap(o).frontmatter.title = unwrap(b).frontmatter.title
                   /\ unwrap(o).frontmatter.tags = unwrap(b).frontmatter.tags
                   /\ unwrap(o).body = unwrap(b).body
             /\ get(notes', unwrap(b).id) = get_by_commit(notes', unwrap(b).commit)
             /\ get(notes', new_id) = n]_vars

\* C28: after a link that succeeded, when the record was on another commit
\* than the target, the note on the target commit is the record with the id,
\* the frontmatter and the body it was listed with, its previous commit has
\* no note, and the notes on other commits are as they were; when the record
\* was on the target commit already, no note changed.
C28_LinkMovesRecord ==
    [][\A args \in (IF last'.op = "link" THEN {last'.id} ELSE {}) :
        (last'.res = "ok" /\ Link(args))
        => \A b \in {find_id_contains(list(notes), args.adr_id)},
              t \in {rev_parse(HEAD, args.commit)} :
             /\ is_some(b) /\ is_some(t)
             /\ unwrap(b).commit = unwrap(t) => notes' = notes
             /\ unwrap(b).commit # unwrap(t)
                => /\ \A a \in {get_by_commit(notes', unwrap(t))} :
                        /\ is_some(a)
                        /\ unwrap(a).id = unwrap(b).id
                        /\ unwrap(a).frontmatter = unwrap(b).frontmatter
                        /\ unwrap(a).body = unwrap(b).body
                   /\ notes_show(notes', ADR_NOTES_REF, unwrap(b).commit) = None
                   /\ \A n \in notes \cup notes' :
                        n.commit \notin {unwrap(b).commit, unwrap(t)}
                        => n \in notes /\ n \in notes']_vars

\* what `new` needs besides an initialized repository to get as far as
\* saving: a status that parses, a registered template, and a file, if one
\* is given, that can be read and, if it opens with frontmatter, parsed
Savable(cfg, args) ==
    /\ \E st \in Statuses :
          /\ Len(args.status) = Len(StatusText[st])
          /\ \A i \in 1..Len(args.status) : LowerOf[args.status[i]] = StatusText[st][i]
    /\ template_key(IF is_some(args.template) THEN unwrap(args.template)
                    ELSE config_load(cfg).format) \in BuiltInTemplates
    /\ is_some(args.file)
       => /\ is_some(unwrap(args.file).content)
          /\ BeginsWithDelimiter(unwrap(unwrap(args.file).content))
             => HasEndMarker(unwrap(unwrap(args.file).content))

\* the frame of `new`, with the outcome of --preview as `previewed` gives it
NewWritesOnlyWhenSaving(previewed(_, _, _)) ==
    last'.op = "new"
    => \A args \in {last'.id} :
        New(args)
        => \A initialized \in {config_get(gitconfig, "initialized") = Some(T_TRUE)} :
             /\ ~initialized => last'.res = "NotInitialized" /\ notes' = notes
             /\ (initialized /\ args.preview)
                => previewed(gitconfig, args, last'.res) /\ notes' = notes
             /\ AdrNotes(notes') # AdrNotes(notes) => initialized /\ ~args.preview

PreviewSucceeds(cfg, args, res) == res = "ok"
PreviewSucceedsWhenSavable(cfg, args, res) == res = "ok" <=> Savable(cfg, args)

C30_InitKeepsOrOverwrites ==
    [][last'.op = "adr init"
       => \A args \in {last'.id} :
            InitRun(args)
            => \A was \in {config_get(gitconfig, "initialized") = Some(T_TRUE)},
                  loaded \in {config_load(gitconfig')} :
                 /\ last'.res = "ok"
                 /\ (was /\ ~args.force) => gitconfig' = gitconfig
                 /\ (args.force \/ ~was)
                    => /\ gitconfig'["prefix"] = Some(args.prefix)
                       /\ gitconfig'["digits"] = Some(to_decimal(args.digits))
                       /\ gitconfig'["template"] = Some(args.template)
                       /\ loaded.prefix = trim(args.prefix)
                       /\ loaded.digits = args.digits
                       /\ loaded.template = trim(args.template)
                 /\ was => gitconfig'["initialized"] = Some(T_TRUE)
                 /\ loaded.initialized]_vars

\* init --force has replaced a configuration with prefix ADR-, four digits
\* and template madr by one with another prefix, two digits and nygard
C30_Witness ==
    /\ last.op = "adr init" /\ last.res = "ok" /\ last.id.force
    /\ last.id = [prefix |-> P_DECISION, digits |-> 2, template |-> T_NYGARD,
                  force |-> TRUE]
    /\ gitconfig["prefix"] = Some(P_DECISION)
    /\ gitconfig["digits"] = Some(<<"2">>)
    /\ gitconfig["template"] = Some(T_NYGARD)
    /\ gitconfig["initialized"] = Some(T_TRUE)

C32_LinkCounts ==
    [][\A args \in (IF last'.op = "link" THEN {last'.id} ELSE {}) :
        Link(args)
        => \A b \in {find_id_contains(list(notes), args.adr_id)},
              t \in {rev_parse(HEAD, args.commit)},
              count \in {Len(list(notes))}, count_after \in {Len(list(notes'))} :
             /\ ~is_some(t) => last'.res # "ok" /\ notes' = notes
             /\ ~is_some(b) => last'.res = "AdrNotFound" /\ notes' = notes
             /\ (is_some(b) /\ is_some(t))
                => \A held \in {get_by_commit(notes, unwrap(t))} :
                     /\ last'.res = "ok"
                     /\ ~is_some(held) => count_after >= count
                     /\ (is_some(held) /\ unwrap(b).commit # unwrap(t))
                        => /\ count_after = count - 1
                           /\ \A a \in {get_by_commit(notes', unwrap(t))} :
                                 /\ is_some(a)
                                 /\ unwrap(a).frontmatter.title = unwrap(b).frontmatter.title
                                 /\ unwrap(a).body = unwrap(b).body
                           /\ notes_show(notes', ADR_NOTES_REF, unwrap(b).commit) = None]_vars

\* a link moved ADR-0001 onto the commit of another record: of the two
\* records one is left, ADR-0001 on commit 2
C32_WitnessOverwritten ==
    /\ last.op = "link" /\ last.res = "ok" /\ last.id.adr_id = format_id(1)
    /\ last.before = 2
    /\ Len(list(notes)) = 1
    /\ list(notes)[1].id = format_id(1) /\ list(notes)[1].commit = 2

\* C33: when every record is created by `new`, under the id it formats from
\* next_number() just before its create, no two listed records share an id.
C33_AllocatedIdsDistinct ==
    \A adrs \in {list(notes)} :
       \A i, j \in DOMAIN adrs : i # j => adrs[i].id # adrs[j].id

\* what str::parse::<u32> accepts among the texts of the model: decimal
\* digits, at least one, after an optional plus sign
Unsigned(s) ==
    \E k \in {0, 1} :
       /\ Len(s) > k
       /\ k = 1 => s[1] = "+"
       /\ \A i \in (k + 1)..Len(s) : s[i] \in {DigitChars[d] : d \in 1..10}
UnsignedValue(s) == decimal_value(IF s[1] = "+" THEN Tail(s) ELSE s)
Remainder(id) == SubSeq(id, Len(prefix) + 1, Len(id))
Counted(adrs) ==
    {i \in DOMAIN adrs : starts_with(adrs[i].id, prefix) /\ Unsigned(Remainder(adrs[i].id))}

\* C34: next_number() is one more than the largest number among the listed
\* ids that are the configured prefix followed by an unsigned integer, and 1
\* when there is none; a note without an id field on a commit whose short
\* form is all decimal digits counts with that number; ids with another
\* remainder or another prefix do not count.
C34_NextNumberReadsNumericIds ==
    \A adrs \in {list(notes)}, n \in {next_number(notes)} :
       /\ Counted(adrs) = {} => n = 1
       /\ \A i \in Counted(adrs) : n > UnsignedValue(Remainder(adrs[i].id))
       /\ Counted(adrs) # {}
          => \E i \in Counted(adrs) : n = UnsignedValue(Remainder(adrs[i].id)) + 1
       /\ \A c \in Commits :
             \A g \in {get_by_commit(notes, c)} :
                (/\ is_some(g)
                 /\ unwrap(g).frontmatter.id = None
                 /\ \A k \in 1..ShortLen : is_digit(short_hash(c)[k]))
                => /\ unwrap(g).id = prefix \o short_hash(c)
                   /\ n > decimal_value(short_hash(c))

\* a note without an id sits on the commit with short form 2071554 beside
\* ADR-0003, ADR-x1 and DECISION-9: the next number is 2071555
C34_WitnessShortForm ==
    /\ \A g \in {get_by_commit(notes, 2)} :
          is_some(g) /\ unwrap(g).frontmatter.id = None
    /\ \E i \in DOMAIN list(notes) : list(notes)[i].id = format_id(3)
    /\ \E i \in DOMAIN list(notes) :
          list(notes)[i].id \in {prefix \o <<"x", "1">>, P_DECISION \o <<"9">>}
    /\ next_number(notes) = 2071555

ArtifactNotes(ns) == {n \in ns : n.ref = ARTIFACTS_NOTES_REF}

\* C35: rm and link leave every artifact note as it was and where it was.
\* After a link has moved a record, `artifacts` reports for it what the
\* target commit held before the move, not what was attached to it; after a
\* record is created, `artifacts` reports for it the artifact note that was
\* already on its commit, whichever record that was attached to.
C35_ArtifactsStayOnCommit ==
    [][/\ last'.op \in {"rm", "link"} => ArtifactNotes(notes') = ArtifactNotes(notes)
       /\ \A args \in (IF last'.op = "link" /\ last'.res = "ok" THEN {last'.id} ELSE {}) :
             Link(args)
             => \A b \in {unwrap(find_id_contains(list(notes), args.adr_id))},
                   t \in {unwrap(rev_parse(HEAD, args.commit))} :
                  /\ artifacts_run(notes', [adr_id |-> b.id, remove |-> FALSE]).artifact
                       = notes_show(notes, ARTIFACTS_NOTES_REF, t)
                  /\ notes_show(notes', ARTIFACTS_NOTES_REF, b.commit)
                       = notes_show(notes, ARTIFACTS_NOTES_REF, b.commit)
       /\ \A adr \in (IF last'.op = "create" /\ last'.res = "ok"
                      THEN {a \in ArtifactRecords : a.id = last'.id} ELSE {}) :
             (Create(adr) /\ get(notes', adr.id) = get_by_commit(notes', adr.commit))
             => artifacts_run(notes', [adr_id |-> adr.id, remove |-> FALSE]).artifact
                  = notes_show(notes, ARTIFACTS_NOTES_REF, adr.commit)]_vars

\* `artifacts ADR-0002` has reported the artifact that was attached to
\* ADR-0001, which is no longer listed
C35_WitnessInherited ==
    /\ last.op = "artifacts" /\ last.res = "ok" /\ last.id.adr_id = <<"2">>
    /\ get(notes, format_id(1)) = None
    /\ sample = [artifact |-> Some(Artifact(<<"a">>, format_id(1)))]

\* C36: after add_template has succeeded for a name that is not built in,
\* has_template is true of the name and render of the name succeeds exactly
\* with the contexts that give the registered text its variables, while
\* get_template of the name fails with TemplateNotFound; get_template
\* succeeds for the five built-in names and no other, whatever is registered.
C36_CustomTemplateRendersButIsNotGot ==
    [][/\ \A name \in {"custom"}, content \in TemplateTexts :
             (AddTemplate(name, content) /\ sample'.res = "ok")
             => /\ name \notin BuiltInTemplates
                /\ has_template(sample'.tera, name)
                /\ \A context \in Contexts :
                      render(sample'.tera, name, context) = "ok"
                      <=> content.required \subseteq DOMAIN context
                /\ get_template(name) = "TemplateNotFound"
       /\ sample'.op = "get_template"
          => (sample'.res = "ok" <=> sample'.name \in BuiltInTemplates)
       /\ (sample'.op = "get_template" /\ sample'.res # "ok")
          => sample'.res = "TemplateNotFound"]_vars

\* get_template("custom") has failed on an engine that has a template
\* registered under that name
C36_WitnessRegisteredNotGot ==
    /\ sample.op = "get_template" /\ sample.name = "custom"
    /\ sample.res = "TemplateNotFound"
    /\ has_template(sample.tera, "custom")
    /\ render(sample.tera, "custom", <<>>) = "ok"

\* the listed records whose id is or contains the argument
Matching(adrs, q) == {i \in DOMAIN adrs : adrs[i].id = q \/ contains(adrs[i].id, q)}

\* a step of each command with ADR argument q
ShowStep(q) == last'.op = "show" /\ \E args \in ShowArgs : args.adr_id = q /\ Show(args)
EditStep(q) ==
    last'.op = "edit" /\ \E args \in ResolveEditArgs : args.adr_id = q /\ Edit(args)
RmStep(q) == last'.op = "rm" /\ \E args \in ResolveRmArgs : args.adr_id = q /\ Rm(args)
SupersedeStep(q) ==
    last'.op = "supersede"
    /\ \E args \in ResolveSupersedeArgs : args.adr_id = q /\ Supersede(args)
LinkStep(q) ==
    last'.op = "link" /\ \E args \in ResolveLinkArgs : args.adr_id = q /\ Link(args)

\* C37: show, edit, rm, supersede and link fail with not-found exactly when
\* no listed id is or contains their ADR argument; otherwise they act on the
\* first record in list() order whose id does, which has the smallest id, as
\* text, of those that do.
C37_ResolvesToFirstMatch ==
    [][\A q \in ResolveIds :
         \A adrs \in {list(notes)} :
           \A ms \in {Matching(adrs, q)} :
              /\ (ShowStep(q) \/ EditStep(q) \/ RmStep(q) \/ SupersedeStep(q) \/ LinkStep(q))
                 => (last'.res = "AdrNotFound" <=> ms = {})
              /\ (ms # {} /\ ShowStep(q))
                 => \A shown \in {show_run(notes, [adr_id |-> q]).adr} :
                       /\ shown = Some(adrs[0 - max_or({0 - i : i \in ms}, 0)])
                       /\ \A i \in ms : TextLeq(unwrap(shown).id, adrs[i].id)
              /\ (ms # {} /\ RmStep(q))
                 => \E i \in ms :
                       /\ \A j \in ms : TextLeq(adrs[i].id, adrs[j].id)
                       /\ notes' = notes \ {n \in notes : n.ref = ADR_NOTES_REF
                                                          /\ n.commit = adrs[i].commit}]_vars

\* the texts a stored note holds: the values of its frontmatter and its body
StoredTexts(doc) ==
    UNION {IF k = "tags" THEN {unwrap(doc.yaml)[k][i] : i \in DOMAIN unwrap(doc.yaml)[k]}
           ELSE IF k = "status" THEN {StatusText[unwrap(doc.yaml)[k]]}
           ELSE IF k = "date" THEN {}
           ELSE {unwrap(doc.yaml)[k]} : k \in DOMAIN unwrap(doc.yaml)}
    \cup {doc.rest}

\* C38: a search without options reports exactly the listed records whose
\* note, as it is stored now, holds the query in some value of its
\* frontmatter or in its body, whatever the letter case; after an edit of
\* the title the record is reported for a word of the new title and not for
\* a word that only the old one had.
C38_SearchReadsTheNotes ==
    (last.op = "adr search" /\ last.res = "ok")
    => \A args \in {last.id}, adrs \in {list(notes)} :
         args = SearchPlain(args.query)
         => /\ \A i \in 1..Len(sample.ids) : \E j \in DOMAIN adrs : adrs[j].id = sample.ids[i]
            /\ \A j \in DOMAIN adrs :
                  (\E i \in 1..Len(sample.ids) : sample.ids[i] = adrs[j].id)
                  <=> \E k \in DOMAIN adrs :
                        /\ adrs[k].id = adrs[j].id
                        /\ \E t \in StoredTexts(unwrap(notes_show(notes, ADR_NOTES_REF,
                                                                 adrs[k].commit))) :
                              contains(to_lowercase(t), to_lowercase(args.query))
            /\ \A j \in DOMAIN adrs :
                  (adrs[j].frontmatter.title = T_RD /\ adrs[j].frontmatter.tags = <<>>)
                  => /\ args.query = Q_REDIS
                        => \E i \in 1..Len(sample.ids) : sample.ids[i] = adrs[j].id
                     /\ args.query = Q_POSTGRES
                        => \A i \in 1..Len(sample.ids) :
                              sample.ids[i] = adrs[j].id
                              => \E k \in DOMAIN adrs : k # j /\ adrs[k].id = adrs[j].id

\* ADR-0001 was created as "Use PostgreSQL" and its title edited: a search
\* for redis reports it, with no index stored
C38_WitnessEditedTitle ==
    /\ last.op = "adr search" /\ last.res = "ok"
    /\ last.id = SearchPlain(Q_REDIS)
    /\ sample.ids = <<format_id(1)>>
    /\ Len(list(notes)) = 2
    /\ load(notes, HEAD).entries = <<>>

\* C39: the git calls of a sync command are its fetches, of the records and
\* then of the artifacts namespace whatever the first returned, followed by
\* its pushes; without options and with both there are fetches and a push,
\* with --pull alone no push, with --push alone no fetch; the command fails
\* exactly when the push of the records namespace failed.
C39_FetchesThenPushes ==
    last.op = "adr sync"
    => \A args \in {last.id} :
         \A fetched \in {\E i \in 1..Len(trace) : trace[i].call = "fetch"},
            pushed \in {\E i \in 1..Len(trace) : trace[i].call = "push"} :
           /\ \A i, j \in 1..Len(trace) :
                 (trace[i].call = "fetch" /\ trace[j].call = "push") => i < j
           /\ fetched
              => /\ Len(trace) >= 2
                 /\ trace[1].call = "fetch" /\ trace[1].ref = ADR_NOTES_REF
                 /\ trace[2].call = "fetch" /\ trace[2].ref = ARTIFACTS_NOTES_REF
           /\ (~args.pull /\ ~args.push) => (fetched /\ pushed)
           /\ (args.pull /\ ~args.push) => (fetched /\ ~pushed)
           /\ (args.push /\ ~args.pull) => (pushed /\ ~fetched)
           /\ last.res # "ok" <=> HasCall(trace, Call("push", ADR_NOTES_REF, "Git"))
           /\ pushed => \E i \in 1..Len(trace) :
                           trace[i].call = "push" /\ trace[i].ref = ADR_NOTES_REF

\* a sync without options whose first fetch failed went on to fetch the
\* artifacts and to push both namespaces, and succeeded
C39_WitnessFailedFetch ==
    /\ last.op = "adr sync" /\ last.res = "ok"
    /\ last.id = [pull |-> FALSE, push |-> FALSE]
    /\ trace = <<Call("fetch", ADR_NOTES_REF, "Git"),
                 Call("fetch", ARTIFACTS_NOTES_REF, "ok"),
                 Call("push", ADR_NOTES_REF, "ok"),
                 Call("push", ARTIFACTS_NOTES_REF, "ok")>>

====
